---- MODULE Spec2Model ----
(***************************************************************************)
(* Sidecar metadata store of superhelperhxpro (main.py): _load_metadata,   *)
(* _save_metadata, tag_file and folder_mood_set over a small directory     *)
(* tree.                                                                   *)
(*                                                                         *)
(* Strings are tuples of code points, so that strip(), split(','), and     *)
(* sorted() are computed as Python computes them.  A file's text is a      *)
(* tuple of JSON tokens; json.dump and json.loads are the serializer and   *)
(* the recursive-descent parser over those tokens.  The JSON subset is the *)
(* one the program writes: objects, arrays, strings and null.              *)
(***************************************************************************)
EXTENDS Integers, Sequences, FiniteSets, TLC

\* ------------------------------------------------------------------ bounds
\* Commands executed in one behaviour.
MaxOps == 2
\* Environment faults (I/O errors on read or write) in one behaviour.
MaxFaults == 1
\* Longest prefix of the serialized text a failed write is taken to leave.
MaxCut == 1
\* Longest file text of the store harness (SpecStore), in tokens.
MaxLen == 3

\* ----------------------------------------------------------------- strings
METADATA_FILE ==
    <<46,115,117,112,101,114,104,120,112,114,111,95,109,101,116,97,100,97,116,97,46,106,115,111,110>>
\* "__folder__"
FOLDER_KEY == <<95,95,102,111,108,100,101,114,95,95>>
\* "tags", "mood", "value", "name"
K_tags == <<116,97,103,115>>
K_mood == <<109,111,111,100>>
K_value == <<118,97,108,117,101>>
K_name == <<110,97,109,101>>

\* a < b in Python's str ordering (lexicographic on code points).
RECURSIVE StrLess(_, _)
StrLess(a, b) ==
    IF b = <<>> THEN FALSE
    ELSE IF a = <<>> THEN TRUE
    ELSE IF a[1] # b[1] THEN a[1] < b[1]
    ELSE StrLess(Tail(a), Tail(b))

\* str.strip(): leading and trailing blanks removed (32 is the blank).
RECURSIVE LStrip(_)
LStrip(s) == IF s # <<>> /\ s[1] = 32 THEN LStrip(Tail(s)) ELSE s

RECURSIVE RStrip(_)
RStrip(s) ==
    IF s # <<>> /\ s[Len(s)] = 32 THEN RStrip(SubSeq(s, 1, Len(s) - 1)) ELSE s

StrStrip(s) == RStrip(LStrip(s))

\* str.split(','): the pieces between commas (44), empty pieces kept.
RECURSIVE SplitFrom(_, _, _)
SplitFrom(s, i, cur) ==
    IF i > Len(s) THEN <<cur>>
    ELSE IF s[i] = 44 THEN <<cur>> \o SplitFrom(s, i + 1, <<>>)
    ELSE SplitFrom(s, i + 1, Append(cur, s[i]))

StrSplit(s) == SplitFrom(s, 1, <<>>)

\* sorted(list(S)) for a set of strings.
RECURSIVE Sorted(_)
\* A variant of sorted(): descending order.
SortedDescending(S) ==
    IF S = {} THEN <<>>
    ELSE LET m == CHOOSE x \in S : \A y \in S : x = y \/ StrLess(y, x)
         IN  <<m>> \o Sorted(S \ {m})

Sorted(S) ==
    IF S = {} THEN <<>>
    ELSE LET m == CHOOSE x \in S : \A y \in S : x = y \/ StrLess(x, y)
         IN  <<m>> \o Sorted(S \ {m})

\* ----------------------------------------------------------- Python values
\* One shape for every value: k is the type, s the characters of a str,
\* items the (key, value) pairs of a dict in insertion order, or the elements
\* of a list (under the empty key).
PyNone == [k |-> "none", s |-> <<>>, items |-> <<>>]
PyStr(s) == [k |-> "str", s |-> s, items |-> <<>>]
PyDict(items) == [k |-> "dict", s |-> <<>>, items |-> items]
Item(key, val) == [key |-> key, val |-> val]
EmptyDict == PyDict(<<>>)
EmptyList == [k |-> "list", s |-> <<>>, items |-> <<>>]

\* lst.append(val)
ListAppend(lst, val) ==
    [k |-> "list", s |-> <<>>, items |-> Append(lst.items, Item(<<>>, val))]

\* key in d
DictHas(d, key) == \E i \in 1..Len(d.items) : d.items[i].key = key

\* d[key]
DictGet(d, key) ==
    d.items[CHOOSE i \in 1..Len(d.items) : d.items[i].key = key].val

\* d.get(key, default)
DictGetOr(d, key, default) == IF DictHas(d, key) THEN DictGet(d, key) ELSE default

\* d[key] = val: an existing key keeps its position, a new key goes last.
DictSet(d, key, val) ==
    IF DictHas(d, key)
    THEN LET i == CHOOSE j \in 1..Len(d.items) : d.items[j].key = key
         IN  PyDict(SubSeq(d.items, 1, i - 1) \o <<Item(key, val)>>
                    \o SubSeq(d.items, i + 1, Len(d.items)))
    ELSE PyDict(Append(d.items, Item(key, val)))

DictKeys(d) == {d.items[i].key : i \in 1..Len(d.items)}

\* The elements of a list of strings, as a set: set(lst).
StrSetOf(lst) == {lst.items[i].val.s : i \in 1..Len(lst.items)}

\* A list of strings from a tuple of strings.
RECURSIVE StrList(_)
StrList(ss) ==
    IF ss = <<>> THEN EmptyList
    ELSE ListAppend(StrList(SubSeq(ss, 1, Len(ss) - 1)), PyStr(ss[Len(ss)]))

\* -------------------------------------------------------------- JSON text
\* A text is a tuple of lexemes, each a tuple of code points: the brackets,
\* colon and comma, null, a run of whitespace (one blank), and a string
\* literal (the opening quote followed by its characters).
L_lbrace == <<123>>
L_rbrace == <<125>>
L_lbrack == <<91>>
L_rbrack == <<93>>
L_colon == <<58>>
L_comma == <<44>>
L_null == <<110,117,108,108>>
L_ws == <<32>>
L_str(s) == <<34>> \o s
IsStrLex(x) == x # <<>> /\ x[1] = 34

\* str(n) of a natural number: its decimal digits.
RECURSIVE DecimalStr(_)
DecimalStr(n) ==
    IF n < 10 THEN <<48 + n>> ELSE Append(DecimalStr(n \div 10), 48 + (n % 10))

\* json.dump(value, f, indent=4): the lexemes written, whitespace included
\* (a newline and indentation after an opening bracket, after each comma and
\* before the closing bracket; a blank after each colon; "{}" and "[]" for
\* the empty containers).
RECURSIVE Dump(_), DumpItems(_, _, _)
\* A variant of json.dump: an empty list or dict is written as null.
DumpEmptyAsNull(v) ==
    CASE v.k = "none" -> <<L_null>>
      [] v.k = "str" -> <<L_str(v.s)>>
      [] v.k = "int" -> <<DecimalStr(v.s[1])>>
      [] v.k = "list" ->
            IF v.items = <<>> THEN <<L_null>>
            ELSE <<L_lbrack, L_ws>> \o DumpItems(v.items, 1, FALSE)
                 \o <<L_ws, L_rbrack>>
      [] v.k = "dict" ->
            IF v.items = <<>> THEN <<L_null>>
            ELSE <<L_lbrace, L_ws>> \o DumpItems(v.items, 1, TRUE)
                 \o <<L_ws, L_rbrace>>

Dump(v) ==
    CASE v.k = "none" -> <<L_null>>
      [] v.k = "str" -> <<L_str(v.s)>>
      [] v.k = "int" -> <<DecimalStr(v.s[1])>>
      [] v.k = "list" ->
            IF v.items = <<>> THEN <<L_lbrack, L_rbrack>>
            ELSE <<L_lbrack, L_ws>> \o DumpItems(v.items, 1, FALSE)
                 \o <<L_ws, L_rbrack>>
      [] v.k = "dict" ->
            IF v.items = <<>> THEN <<L_lbrace, L_rbrace>>
            ELSE <<L_lbrace, L_ws>> \o DumpItems(v.items, 1, TRUE)
                 \o <<L_ws, L_rbrace>>

DumpItems(items, i, keyed) ==
    LET one == (IF keyed THEN <<L_str(items[i].key), L_colon, L_ws>> ELSE <<>>)
               \o Dump(items[i].val)
    IN  IF i = Len(items) THEN one
        ELSE one \o <<L_comma, L_ws>> \o DumpItems(items, i + 1, keyed)

\* The decoder (json.loads) as a machine over the lexemes: mode is what it
\* expects next, stack the containers still open (each with the key waiting
\* for its value), val the finished top-level value.
\*   "value"  a value                 "first"  a first member, or the close
\*   "key"    a member's key          "colon"  the colon after a key
\*   "after"  a comma or the close    "end"    nothing but whitespace
ParseStart == [ok |-> TRUE, mode |-> "value", stack |-> <<>>, val |-> PyNone]
ParseFail == [ok |-> FALSE, mode |-> "end", stack |-> <<>>, val |-> PyNone]
Frame(c, key) == [c |-> c, key |-> key]

\* A value v is complete: it is the result, or goes into the innermost open
\* container (a repeated key keeps its last value).
Complete(stack, v) ==
    IF stack = <<>> THEN [ok |-> TRUE, mode |-> "end", stack |-> <<>>, val |-> v]
    ELSE LET top == stack[Len(stack)]
             rest == SubSeq(stack, 1, Len(stack) - 1)
             c2 == IF top.c.k = "dict" THEN DictSet(top.c, top.key, v)
                   ELSE ListAppend(top.c, v)
         IN  [ok |-> TRUE, mode |-> "after",
              stack |-> Append(rest, Frame(c2, <<>>)), val |-> PyNone]

Close(stack) == Complete(SubSeq(stack, 1, Len(stack) - 1), stack[Len(stack)].c)

Open(cfg, c) ==
    [ok |-> TRUE, mode |-> "first", stack |-> Append(cfg.stack, Frame(c, <<>>)),
     val |-> PyNone]

ExpectKey(cfg, tok) ==
    IF IsStrLex(tok)
    THEN LET top == cfg.stack[Len(cfg.stack)]
         IN  [ok |-> TRUE, mode |-> "colon",
              stack |-> Append(SubSeq(cfg.stack, 1, Len(cfg.stack) - 1),
                               Frame(top.c, Tail(tok))),
              val |-> PyNone]
    ELSE ParseFail

ExpectValue(cfg, tok) ==
    CASE IsStrLex(tok) -> Complete(cfg.stack, PyStr(Tail(tok)))
      [] tok = L_null -> Complete(cfg.stack, PyNone)
      [] tok = L_lbrace -> Open(cfg, EmptyDict)
      [] tok = L_lbrack -> Open(cfg, EmptyList)
      [] OTHER -> ParseFail

InDict(cfg) == cfg.stack[Len(cfg.stack)].c.k = "dict"

\* One lexeme consumed.
ParseStep(cfg, tok) ==
    IF tok = L_ws THEN cfg
    ELSE CASE cfg.mode = "value" -> ExpectValue(cfg, tok)
           [] cfg.mode = "first" ->
                IF InDict(cfg)
                THEN IF tok = L_rbrace THEN Close(cfg.stack) ELSE ExpectKey(cfg, tok)
                ELSE IF tok = L_rbrack THEN Close(cfg.stack) ELSE ExpectValue(cfg, tok)
           [] cfg.mode = "key" -> ExpectKey(cfg, tok)
           [] cfg.mode = "colon" ->
                IF tok = L_colon THEN [cfg EXCEPT !.mode = "value"] ELSE ParseFail
           [] cfg.mode = "after" ->
                IF InDict(cfg)
                THEN IF tok = L_rbrace THEN Close(cfg.stack)
                     ELSE IF tok = L_comma THEN [cfg EXCEPT !.mode = "key"]
                     ELSE ParseFail
                ELSE IF tok = L_rbrack THEN Close(cfg.stack)
                     ELSE IF tok = L_comma THEN [cfg EXCEPT !.mode = "value"]
                     ELSE ParseFail
           [] OTHER -> ParseFail

RECURSIVE ParseRun(_, _, _)
ParseRun(toks, i, cfg) ==
    IF ~cfg.ok \/ i > Len(toks) THEN cfg
    ELSE ParseRun(toks, i + 1, ParseStep(cfg, toks[i]))

\* json.loads(text): the value, or JSONDecodeError (ok = FALSE) when the text
\* is not exactly one value.
JsonLoads(toks) ==
    LET cfg == ParseRun(toks, 1, ParseStart)
    IN  [ok |-> cfg.ok /\ cfg.mode = "end", val |-> cfg.val]

\* content.strip() on a text: whitespace at both ends removed.
RECURSIVE TextStrip(_)
TextStrip(toks) ==
    IF toks # <<>> /\ toks[1] = L_ws THEN TextStrip(Tail(toks))
    ELSE IF toks # <<>> /\ toks[Len(toks)] = L_ws
    THEN TextStrip(SubSeq(toks, 1, Len(toks) - 1))
    ELSE toks

\* -------------------------------------------------------------------- store
\* A sidecar file: whether it exists, and its text.
Absent == [exists |-> FALSE, text |-> <<>>]
FileOf(toks) == [exists |-> TRUE, text |-> toks]

\* What reading the file does: "ok", or the exception open()/read() raises.
ReadOutcomes == {"ok", "IOError", "UnicodeDecodeError"}

\* The try block of _load_metadata: the value returned, or the exception
\* that leaves the block.
LoadTry(file, rd) ==
    IF rd # "ok" THEN [exc |-> rd, val |-> EmptyDict]
    ELSE LET content == TextStrip(file.text)
         IN  IF content # <<>>
             THEN LET r == JsonLoads(content)
                  IN  IF r.ok THEN [exc |-> "none", val |-> r.val]
                      ELSE [exc |-> "JSONDecodeError", val |-> EmptyDict]
             ELSE [exc |-> "none", val |-> EmptyDict]

\* The except clauses of _load_metadata, in order: JSONDecodeError, IOError,
\* Exception.  Each returns {}.
\* A variant of the except clauses without the final "except Exception".
LoadHandlersNoCatchAll(t) ==
    CASE t.exc = "none" -> [raised |-> FALSE, val |-> t.val]
      [] t.exc = "JSONDecodeError" -> [raised |-> FALSE, val |-> EmptyDict]
      [] t.exc = "IOError" -> [raised |-> FALSE, val |-> EmptyDict]
      [] OTHER -> [raised |-> TRUE, val |-> PyNone]

LoadHandlers(t) ==
    CASE t.exc = "none" -> [raised |-> FALSE, val |-> t.val]
      [] t.exc = "JSONDecodeError" -> [raised |-> FALSE, val |-> EmptyDict]
      [] t.exc = "IOError" -> [raised |-> FALSE, val |-> EmptyDict]
      [] OTHER -> [raised |-> FALSE, val |-> EmptyDict]

\* _load_metadata(folder_path) on the folder's sidecar file.
LoadMetadata(file, rd) ==
    IF file.exists THEN LoadHandlers(LoadTry(file, rd))
    ELSE [raised |-> FALSE, val |-> EmptyDict]

\* What the write does: it completes ("ok"), open() is refused ("denied"),
\* or it fails after open() truncated the file, leaving the first `cut`
\* tokens of the text ("partial").
WriteOk == [kind |-> "ok", cut |-> 0]
WriteFaults ==
    {[kind |-> "denied", cut |-> 0]} \cup {[kind |-> "partial", cut |-> c] : c \in 0..MaxCut}

Min(a, b) == IF a < b THEN a ELSE b

\* os.makedirs(folder_path, exist_ok=True): every directory of the tree
\* exists; the empty path raises FileNotFoundError.
MakeDirsOk(folder) == folder # ""

\* _save_metadata(folder_path, metadata): the sidecar file afterwards, and
\* whether the write completed.  Every exception is caught and printed.
SaveMetadata(folder, file, metadata, wr) ==
    LET text == Dump(metadata)
    IN  IF ~MakeDirsOk(folder) THEN [file |-> file, ok |-> FALSE]
        ELSE IF wr.kind = "denied" THEN [file |-> file, ok |-> FALSE]
        ELSE IF wr.kind = "partial"
        THEN [file |-> FileOf(SubSeq(text, 1, Min(wr.cut, Len(text) - 1))), ok |-> FALSE]
        ELSE [file |-> FileOf(text), ok |-> TRUE]

\* --------------------------------------------------------------- file tree
\* The working directory "." and its subdirectory "./s".  A path is written
\* as (dir, name): os.path.dirname and os.path.basename of the argument; a
\* bare file name has dir "", and a directory has the empty name.
Dirs == {".", "./s"}
SubDirs(d) == IF d = "." THEN <<"./s">> ELSE <<>>
Resolve(dir) == IF dir = "" THEN "." ELSE dir
FilePath(dir, name) == [dir |-> dir, name |-> name]
DirPath(dir) == [dir |-> dir, name |-> <<>>]

\* "a.txt", "b.txt", "note.md", "ghost.txt"
F_a == <<97,46,116,120,116>>
F_b == <<98,46,116,120,116>>
F_none == <<110,111,116,101,46,109,100>>
F_ghost == <<103,104,111,115,116,46,116,120,116>>
\* "happy", "stressful", "Trip"
S_happy == <<104,97,112,112,121>>
S_stressful == <<115,116,114,101,115,115,102,117,108>>
S_Trip == <<84,114,105,112>>

VARIABLES
    fs,        \* directory -> the names of its regular files, in listing order
    disk,      \* directory -> its sidecar file
    last,      \* the last command: its arguments and what it did
    nops,      \* commands executed
    nfaults,   \* environment faults so far
    tagOnly,   \* the store started empty and only tag_file has run
    stat,      \* directory -> what os.stat and a read give for each regular file
    json_file  \* the file at the path export_map writes its catalog to

vars == <<fs, disk, last, nops, nfaults, tagOnly, stat, json_file>>

SeqToSet(q) == {q[i] : i \in 1..Len(q)}

\* The map from the two directories to a value each.
DirMap(root, sub) == ("." :> root) @@ ("./s" :> sub)
\* The map m with the value at directory d replaced.
DirPut(m, d, v) ==
    DirMap(IF d = "." THEN v ELSE m["."], IF d = "./s" THEN v ELSE m["./s"])

\* os.listdir / the files of os.walk: the regular files, and the sidecar
\* file once it exists.
Listing(d, dsk, files) ==
    files[d] \o (IF dsk[d].exists THEN <<METADATA_FILE>> ELSE <<>>)

IsDir(path) == path.name = <<>> /\ path.dir \in Dirs
IsFile(path, dsk, files) ==
    /\ path.name # <<>>
    /\ Resolve(path.dir) \in Dirs
    /\ path.name \in SeqToSet(Listing(Resolve(path.dir), dsk, files))

\* [os.path.join(r, f) for r, _, files in os.walk(top) for f in files]
\* os.path.join(r, f) for each f of a listing.
RECURSIVE JoinAll(_, _)
JoinAll(r, names) ==
    IF names = <<>> THEN <<>>
    ELSE <<FilePath(r, Head(names))>> \o JoinAll(r, Tail(names))

RECURSIVE WalkFiles(_, _, _), WalkEach(_, _, _)
WalkFiles(top, dsk, files) ==
    JoinAll(top, Listing(top, dsk, files)) \o WalkEach(SubDirs(top), dsk, files)

WalkEach(ds, dsk, files) ==
    IF ds = <<>> THEN <<>>
    ELSE WalkFiles(Head(ds), dsk, files) \o WalkEach(Tail(ds), dsk, files)

\* target_paths of tag_file.
TargetPaths(path, recursive, dsk, files) ==
    IF IsFile(path, dsk, files) THEN <<path>>
    ELSE IF recursive THEN WalkFiles(path.dir, dsk, files)
    ELSE JoinAll(path.dir, Listing(path.dir, dsk, files))

\* {tag.strip() for tag in arg.split(',') if tag.strip()}
ParseTags(arg) ==
    {StrStrip(t) : t \in SeqToSet(StrSplit(arg))} \ {<<>>}

\* ----------------------------------------------------------------- tag_file
\* The running account of one command: the store, the _load_metadata and
\* _save_metadata calls per directory, the faults met, and every failed save
\* with the file before and after it.
Account(dsk) ==
    [disk |-> dsk, loads |-> DirMap(0, 0), saves |-> DirMap(0, 0),
     faults |-> 0, failed |-> <<>>]

\* One more call counted for directory d.
Bump(count, d) == DirPut(count, d, count[d] + 1)

NewEntry == PyDict(<<Item(K_tags, EmptyList)>>)

\* The account after one loop body (of tag_file, or the body of
\* folder_mood_set) on directory d: one load; when save_called, one save
\* whose result is res; a fault counted for each outcome that took effect.
Accounted(st, d, folder, file, rd, wr, save_called, res) ==
    [disk |-> IF save_called THEN DirPut(st.disk, d, res.file) ELSE st.disk,
     loads |-> Bump(st.loads, d),
     saves |-> IF save_called THEN Bump(st.saves, d) ELSE st.saves,
     faults |-> st.faults + (IF file.exists /\ rd # "ok" THEN 1 ELSE 0)
                + (IF save_called /\ MakeDirsOk(folder) /\ wr.kind # "ok"
                   THEN 1 ELSE 0),
     failed |-> IF save_called /\ ~res.ok
                THEN Append(st.failed, [before |-> file, after |-> res.file])
                ELSE st.failed]

\* if updated_tags != current_tags: store the sorted list and save.
TagStore(st, path, metadata, current_tags, updated_tags, rd, wr) ==
    LET entry == DictSet(DictGet(metadata, path.name), K_tags,
                         StrList(Sorted(updated_tags)))
        file == st.disk[Resolve(path.dir)]
    IN  Accounted(st, Resolve(path.dir), path.dir, file, rd, wr,
                  updated_tags # current_tags,
                  SaveMetadata(path.dir, file, DictSet(metadata, path.name, entry), wr))

\* current_tags and updated_tags of the entry of file_key.
TagUpdate(st, path, metadata, add_tags, remove_tags, rd, wr) ==
    LET current_tags ==
            StrSetOf(DictGetOr(DictGet(metadata, path.name), K_tags, EmptyList))
    IN  TagStore(st, path, metadata, current_tags,
                 (current_tags \cup add_tags) \ remove_tags, rd, wr)

\* if file_key not in metadata: metadata[file_key] = {"tags": []}
\* A variant of the loop body that starts from a fresh document instead of
\* the loaded one.
TagEntryFresh(st, path, loaded, add_tags, remove_tags, rd, wr) ==
    TagUpdate(st, path, DictSet(EmptyDict, path.name, NewEntry),
              add_tags, remove_tags, rd, wr)

TagEntry(st, path, loaded, add_tags, remove_tags, rd, wr) ==
    TagUpdate(st, path,
              IF DictHas(loaded, path.name) THEN loaded
              ELSE DictSet(loaded, path.name, NewEntry),
              add_tags, remove_tags, rd, wr)

\* The loop body of tag_file for one path, under read outcome rd and write
\* outcome wr.
TagOne(st, path, add_tags, remove_tags, rd, wr) ==
    TagEntry(st, path, LoadMetadata(st.disk[Resolve(path.dir)], rd).val,
             add_tags, remove_tags, rd, wr)

\* The (read, write) outcomes the environment may produce for one loop body
\* when the command has b faults left.  Every failed read has the same
\* effect on the caller, so one stands for all.
FaultChoices(st, b) ==
    IF st.faults < b
    THEN {[rd |-> rd, wr |-> wr] : rd \in {"ok", "IOError"}, wr \in {WriteOk} \cup WriteFaults}
    ELSE {[rd |-> "ok", wr |-> WriteOk]}

\* for path in target_paths: skip what is not a file and the sidecar file.
RECURSIVE TagLoop(_, _, _, _, _, _)
TagLoop(paths, st, add_tags, remove_tags, files, b) ==
    IF paths = <<>> THEN {st}
    ELSE LET path == Head(paths)
         IN  IF ~IsFile(path, st.disk, files) \/ path.name = METADATA_FILE
             THEN TagLoop(Tail(paths), st, add_tags, remove_tags, files, b)
             ELSE LET outs == {TagOne(st, path, add_tags, remove_tags, c.rd, c.wr) :
                                  c \in FaultChoices(st, b)}
                  IN  UNION {TagLoop(Tail(paths), o, add_tags, remove_tags, files, b) :
                                o \in {x \in outs : x.faults <= b}}

\* tag_file(file_path, add_tags_str, remove_tags_str, recursive): the
\* accounts it can end with.
TagFileOutcomes(path, add, rem, recursive, dsk, files, b) ==
    IF ~IsFile(path, dsk, files) /\ ~IsDir(path) THEN {Account(dsk)}
    ELSE TagLoop(TargetPaths(path, recursive, dsk, files), Account(dsk),
                 ParseTags(add), ParseTags(rem), files, b)

\* ---------------------------------------------------------- folder_mood_set
\* name if name else None
NameOrNone(name) == IF name.k = "str" /\ name.s # <<>> THEN name ELSE PyNone

MoodRecord(mood, name) ==
    PyDict(<<Item(K_value, PyStr(mood)),
             Item(K_name, NameOrNone(name))>>)

\* metadata["__folder__"]["mood"] = {...}; _save_metadata(folder, metadata)
\* A variant of the assignment of the mood that keeps a mood already set
\* (setdefault).
MoodStoreKeep(st, folder, metadata, mood, name, rd, wr) ==
    LET old == DictGet(metadata, FOLDER_KEY)
        entry == IF DictHas(old, K_mood) THEN old
                 ELSE DictSet(old, K_mood, MoodRecord(mood, name))
    IN  Accounted(st, folder, folder, st.disk[folder], rd, wr, TRUE,
                  SaveMetadata(folder, st.disk[folder],
                               DictSet(metadata, FOLDER_KEY, entry), wr))

MoodStore(st, folder, metadata, mood, name, rd, wr) ==
    LET entry == DictSet(DictGet(metadata, FOLDER_KEY), K_mood, MoodRecord(mood, name))
    IN  Accounted(st, folder, folder, st.disk[folder], rd, wr, TRUE,
                  SaveMetadata(folder, st.disk[folder],
                               DictSet(metadata, FOLDER_KEY, entry), wr))

\* if "__folder__" not in metadata: metadata["__folder__"] = {}
MoodEntry(st, folder, loaded, mood, name, rd, wr) ==
    MoodStore(st, folder,
              IF DictHas(loaded, FOLDER_KEY) THEN loaded
              ELSE DictSet(loaded, FOLDER_KEY, EmptyDict),
              mood, name, rd, wr)

\* The body of folder_mood_set under read outcome rd and write outcome wr.
MoodOne(st, folder, mood, name, rd, wr) ==
    MoodEntry(st, folder, LoadMetadata(st.disk[folder], rd).val, mood, name, rd, wr)

FolderMoodSetOutcomes(folder, mood, name, dsk, b) ==
    IF ~IsDir(DirPath(folder)) THEN {Account(dsk)}
    ELSE LET outs == {MoodOne(Account(dsk), folder, mood, name, c.rd, c.wr) :
                         c \in FaultChoices(Account(dsk), b)}
         IN  {x \in outs : x.faults <= b}

\* ------------------------------------------------------------------ inputs
\* tag command lines: (path, add_tags, remove_tags, recursive).
A_none == <<>>
A_a == <<97>>
A_b == <<98>>
\* " b ,,A,a"
A_mixed == <<32,98,32,44,44,65,44,97>>
TagCall(path, add, rem, recursive) ==
    [path |-> path, add |-> add, rem |-> rem, recursive |-> recursive]
TagCalls ==
    {TagCall(FilePath(".", F_a), p[1], p[2], FALSE) :
        p \in {<<A_a, A_none>>, <<A_none, A_a>>, <<A_mixed, A_none>>, <<A_b, A_a>>}}
    \cup {TagCall(FilePath("", F_a), A_a, A_none, FALSE),
          TagCall(FilePath(".", FOLDER_KEY), A_a, A_none, FALSE),
          TagCall(DirPath("."), A_mixed, A_none, TRUE),
          TagCall(DirPath("."), A_b, A_a, FALSE)}
\* folder-mood set command lines: (folder, --mood, --name).
MoodCall(folder, mood, name) == [folder |-> folder, mood |-> mood, name |-> name]
MoodCalls ==
    {MoodCall(".", S_happy, PyNone),
     MoodCall(".", S_happy, PyStr(<<>>)),
     MoodCall(".", S_stressful, PyStr(S_Trip)),
     MoodCall("./s", S_stressful, PyStr(S_Trip))}

\* A store left by hand or by an earlier run: an entry for a file that is no
\* longer there, and an entry of a.txt holding a field besides its tags.
OldStore ==
    PyDict(<<Item(F_ghost, PyDict(<<Item(K_tags, StrList(<<<<98>>>>))>>)),
             Item(F_a, PyDict(<<Item(K_tags, StrList(<<<<97>>>>)),
                                Item(K_mood, MoodRecord(S_happy, PyNone))>>))>>)

NoCommand ==
    [op |-> "init", path |-> DirPath("."), recursive |-> FALSE, add |-> <<>>,
     rem |-> <<>>, mood |-> <<>>, name |-> PyNone, repeat |-> FALSE]

Done(cmd, pre, out) ==
    [cmd |-> cmd, pre |-> pre, loads |-> out.loads, saves |-> out.saves,
     faults |-> out.faults, failed |-> out.failed]

\* ----------------------------------------------------------- specification
Init ==
    /\ fs = DirMap(<<F_a, FOLDER_KEY>>, <<F_b>>)
    /\ stat = DirMap(<<>>, <<>>)
    /\ json_file = Absent
    /\ \E old \in BOOLEAN :
          /\ disk = DirMap(IF old THEN FileOf(Dump(OldStore)) ELSE Absent, Absent)
          /\ tagOnly = ~old
    /\ last = Done(NoCommand, disk, Account(disk))
    /\ nops = 0
    /\ nfaults = 0

TagFile(path, add, rem, recursive) ==
    /\ nops < MaxOps
    /\ \E out \in TagFileOutcomes(path, add, rem, recursive, disk, fs,
                                  MaxFaults - nfaults) :
          /\ disk' = out.disk
          /\ nfaults' = nfaults + out.faults
          /\ LET cmd == [op |-> "tag", path |-> path, recursive |-> recursive,
                         add |-> add, rem |-> rem, mood |-> <<>>, name |-> PyNone,
                         repeat |-> FALSE]
             IN  last' = Done([cmd EXCEPT !.repeat =
                                     last.faults = 0
                                     /\ [last.cmd EXCEPT !.repeat = FALSE] = cmd],
                              disk, out)
    /\ nops' = nops + 1
    /\ UNCHANGED <<fs, tagOnly, stat, json_file>>

FolderMoodSet(folder, mood, name) ==
    /\ nops < MaxOps
    /\ \E out \in FolderMoodSetOutcomes(folder, mood, name, disk,
                                        MaxFaults - nfaults) :
          /\ disk' = out.disk
          /\ nfaults' = nfaults + out.faults
          /\ last' = Done([op |-> "mood_set", path |-> DirPath(folder),
                           recursive |-> FALSE, add |-> <<>>, rem |-> <<>>,
                           mood |-> mood, name |-> name, repeat |-> FALSE],
                          disk, out)
    /\ nops' = nops + 1
    /\ tagOnly' = FALSE
    /\ UNCHANGED <<fs, stat, json_file>>

Next ==
    \/ \E c \in TagCalls : TagFile(c.path, c.add, c.rem, c.recursive)
    \/ \E c \in MoodCalls : FolderMoodSet(c.folder, c.mood, c.name)

Spec == Init /\ [][Next]_vars

\* ------------------------------------------------- reading the store back
\* The document a directory's sidecar file holds, as _load_metadata returns
\* it: now, and before the last command.
Doc(d) == LoadMetadata(disk[d], "ok").val
PreDoc(d) == LoadMetadata(last.pre[d], "ok").val

\* The paths the loop of the last tag command processed.
Processed ==
    IF last.cmd.op # "tag" THEN {}
    ELSE {p \in SeqToSet(TargetPaths(last.cmd.path, last.cmd.recursive, last.pre, fs)) :
             IsFile(p, last.pre, fs) /\ p.name # METADATA_FILE}
ProcessedIn(d) == {p \in Processed : Resolve(p.dir) = d}
TouchedKeys(d) == {p.name : p \in ProcessedIn(d)}

\* The tags a document stores for a key (none when it has no entry).
TagsOf(doc, key) ==
    IF DictHas(doc, key)
    THEN StrSetOf(DictGetOr(DictGet(doc, key), K_tags, EmptyList))
    ELSE {}

\* The record a document holds under a key, or None.
RecordOf(doc, key) == DictGetOr(doc, key, PyNone)

FaultFree(op) == last.cmd.op = op /\ last.faults = 0

\* ------------------------------------------------------------------ claims

\* C1: a metadata write is all-or-nothing: after every failed
\* _save_metadata call the sidecar file is exactly what it was before the
\* call (or still does not exist).
C1_FailedWriteLeavesFile ==
    \A i \in 1..Len(last.failed) : last.failed[i].after = last.failed[i].before

\* C4: tag_file stores (current \cup add) \ remove for every file it
\* processes, and a second run with the same arguments stores the same set and
\* calls _save_metadata for no file.
C4_TagIdempotent ==
    FaultFree("tag") =>
        /\ \A p \in Processed :
              TagsOf(Doc(Resolve(p.dir)), p.name)
                = (TagsOf(PreDoc(Resolve(p.dir)), p.name)
                     \cup ParseTags(last.cmd.add)) \ ParseTags(last.cmd.rem)
        /\ last.cmd.repeat =>
              /\ \A d \in Dirs : last.saves[d] = 0
              /\ disk = last.pre

\* C6: one tag_file call loads each owning directory's document exactly once
\* and saves it at most once, however many files of the directory it
\* processes.
C6_OncePerDirectory ==
    last.cmd.op = "tag" =>
        \A d \in Dirs :
            /\ last.loads[d] = (IF ProcessedIn(d) = {} THEN 0 ELSE 1)
            /\ last.saves[d] <= 1

\* C7: the reserved directory key never collides with a file name: tagging a
\* file leaves the record holding the directory mood as it was, and setting
\* the directory mood leaves the record of every file of the directory as it
\* was.
C7_ReservedKeyApart ==
    /\ FaultFree("tag") =>
          \A d \in Dirs : RecordOf(Doc(d), FOLDER_KEY) = RecordOf(PreDoc(d), FOLDER_KEY)
    /\ FaultFree("mood_set") =>
          \A d \in Dirs : \A f \in SeqToSet(fs[d]) :
              RecordOf(Doc(d), f) = RecordOf(PreDoc(d), f)

\* C8: from an empty store and under tag_file alone, no key of a document
\* maps to a record with an empty tag list and no mood.
C8_NoEmptyEntry ==
    tagOnly =>
        \A d \in Dirs : \A key \in DictKeys(Doc(d)) :
            ~(/\ TagsOf(Doc(d), key) = {}
              /\ ~DictHas(DictGet(Doc(d), key), K_mood))

\* Every field of record before other than field is in record after with the
\* same value, and after has no other new field.
FieldsKept(before, after, field) ==
    /\ \A key \in DictKeys(before) \ {field} :
          DictHas(after, key) /\ DictGet(after, key) = DictGet(before, key)
    /\ DictKeys(after) \subseteq DictKeys(before) \cup {field}

\* Every entry of document before under a key outside touched is in document
\* after with the same value, and after has no new key outside touched.
EntriesKept(before, after, touched) ==
    /\ \A key \in DictKeys(before) \ touched :
          RecordOf(after, key) = RecordOf(before, key)
    /\ DictKeys(after) \subseteq DictKeys(before) \cup touched

\* C5: a call that meets no I/O fault changes only the touched entry. After
\* tag_file, every key of a directory's document other than the processed
\* files has the value it had, no other key appears, and every field other
\* than tags of a processed file's record is as it was; after
\* folder_mood_set, the same holds with the reserved key and its mood field,
\* and the other directories' sidecar files are untouched.
C5_Frame ==
    /\ FaultFree("tag") =>
          \A d \in Dirs :
              /\ EntriesKept(PreDoc(d), Doc(d), TouchedKeys(d))
              /\ \A key \in TouchedKeys(d) \cap DictKeys(PreDoc(d)) :
                    /\ DictHas(Doc(d), key)
                    /\ FieldsKept(DictGet(PreDoc(d), key), DictGet(Doc(d), key), K_tags)
              /\ TouchedKeys(d) = {} => disk[d] = last.pre[d]
    /\ FaultFree("mood_set") =>
          \A d \in Dirs :
              /\ EntriesKept(PreDoc(d), Doc(d), {FOLDER_KEY})
              /\ DictHas(PreDoc(d), FOLDER_KEY) =>
                    /\ DictHas(Doc(d), FOLDER_KEY)
                    /\ FieldsKept(DictGet(PreDoc(d), FOLDER_KEY),
                                  DictGet(Doc(d), FOLDER_KEY), K_mood)
              /\ d # last.cmd.path.dir => disk[d] = last.pre[d]

\* C5 witness: tag_file has rewritten the document of a directory that held
\* an entry for another key and a mood field in the processed file's record.
C5_Witness ==
    /\ FaultFree("tag")
    /\ last.saves["."] > 0
    /\ disk["."] # last.pre["."]
    /\ DictKeys(PreDoc(".")) \ TouchedKeys(".") # {}
    /\ \E key \in TouchedKeys(".") \cap DictKeys(PreDoc(".")) :
          /\ DictHas(DictGet(PreDoc("."), key), K_mood)
          /\ TagsOf(Doc("."), key) # TagsOf(PreDoc("."), key)

\* The tag strings of a list, in order.
TagSeq(lst) == [i \in 1..Len(lst.items) |-> lst.items[i].val.s]

StrictlyAscending(ss) == \A i \in 1..(Len(ss) - 1) : StrLess(ss[i], ss[i + 1])

\* The entries the last tag command has written: those of processed files
\* that the store now holds and did not hold in this form before.
Written ==
    {p \in Processed :
        /\ DictHas(Doc(Resolve(p.dir)), p.name)
        /\ RecordOf(Doc(Resolve(p.dir)), p.name) # RecordOf(PreDoc(Resolve(p.dir)), p.name)}

\* C9: in every entry tag_file writes, the tags list is in strictly ascending
\* order (so duplicate-free), holds every added tag that is not removed
\* exactly as spelled, and holds no tag that is neither a stored nor an added
\* one: tags differing only in letter case stay distinct.
C9_TagsSortedDistinct ==
    \A p \in Written :
        LET lst == DictGet(DictGet(Doc(Resolve(p.dir)), p.name), K_tags)
        IN  /\ lst.k = "list"
            /\ StrictlyAscending(TagSeq(lst))
            /\ ParseTags(last.cmd.add) \ ParseTags(last.cmd.rem) \subseteq StrSetOf(lst)
            /\ StrSetOf(lst) \subseteq
                  TagsOf(PreDoc(Resolve(p.dir)), p.name) \cup ParseTags(last.cmd.add)

\* C9 witness: a written list holds "A", "a" and "b", added as " b ,,A,a".
C9_Witness ==
    \E p \in Written :
        /\ last.cmd.add = A_mixed
        /\ TagSeq(DictGet(DictGet(Doc(Resolve(p.dir)), p.name), K_tags))
             = <<<<65>>, <<97>>, <<98>>>>

\* The number of items of a dict under a key.
CountKey(d, key) == Cardinality({i \in 1..Len(d.items) : d.items[i].key = key})

\* C10: after a folder_mood_set call that meets no I/O fault, the document of
\* the directory holds one reserved entry with one mood field, which is the
\* record {value, name} of this call, whatever mood was set before.
C10_OneActiveMood ==
    FaultFree("mood_set") =>
        LET doc == Doc(last.cmd.path.dir)
        IN  /\ CountKey(doc, FOLDER_KEY) = 1
            /\ CountKey(DictGet(doc, FOLDER_KEY), K_mood) = 1
            /\ LET m == DictGet(DictGet(doc, FOLDER_KEY), K_mood)
               IN  /\ m.k = "dict"
                   /\ DictKeys(m) = {K_value, K_name}
                   /\ Len(m.items) = 2
                   /\ DictGet(m, K_value) = PyStr(last.cmd.mood)
                   /\ DictGet(m, K_name)
                        = (IF last.cmd.name.k = "str" /\ last.cmd.name.s # <<>>
                           THEN last.cmd.name ELSE PyNone)

\* C10 witness: stressful has been set on a directory whose mood was happy.
C10_Witness ==
    /\ FaultFree("mood_set")
    /\ last.cmd.mood = S_stressful
    /\ DictHas(PreDoc(last.cmd.path.dir), FOLDER_KEY)
    /\ DictHas(DictGet(PreDoc(last.cmd.path.dir), FOLDER_KEY), K_mood)
    /\ DictGet(DictGet(DictGet(PreDoc(last.cmd.path.dir), FOLDER_KEY), K_mood), K_value)
         = PyStr(S_happy)
    /\ DictGet(DictGet(DictGet(Doc(last.cmd.path.dir), FOLDER_KEY), K_mood), K_value)
         = PyStr(S_stressful)

\* ---------------------------------------------- the store on its own
\* _load_metadata and _save_metadata called directly on directory ".": a
\* load of whatever the sidecar file holds, or a save of a well-formed
\* document followed by a load.
L_bad == <<63>>
StoreAlphabet ==
    {L_lbrace, L_rbrace, L_lbrack, L_rbrack, L_colon, L_comma, L_null, L_ws,
     L_str(<<97>>), L_bad}

\* Every text of at most n lexemes.
RECURSIVE TextsUpTo(_)
TextsUpTo(n) ==
    IF n = 0 THEN {<<>>}
    ELSE LET shorter == TextsUpTo(n - 1)
         IN  shorter \cup {Append(t, x) : t \in shorter, x \in StoreAlphabet}

\* Well-formed documents: the empty one, OldStore, one with the reserved key
\* holding a named mood beside a file with three tags, one with an empty tag
\* list.
MoodAndTags ==
    PyDict(<<Item(FOLDER_KEY,
                  PyDict(<<Item(K_mood, MoodRecord(S_stressful, PyStr(S_Trip)))>>)),
             Item(F_a, PyDict(<<Item(K_tags, StrList(<<<<65>>, <<97>>, <<98>>>>))>>))>>)
EmptyTags == PyDict(<<Item(F_b, NewEntry)>>)
StoreDocs == {EmptyDict, OldStore, MoodAndTags, EmptyTags}

\* The texts a document's file has when a write of it stopped part-way.
Truncations(doc) == {SubSeq(Dump(doc), 1, n) : n \in 1..(Len(Dump(doc)) - 1)}

\* The texts the sidecar file starts with: short arbitrary ones, whole,
\* padded and truncated documents.
StoreTexts ==
    TextsUpTo(MaxLen)
      \cup {Dump(doc) : doc \in StoreDocs}
      \cup {<<L_ws>> \o Dump(doc) \o <<L_ws, L_ws>> : doc \in StoreDocs}
      \cup UNION {Truncations(doc) : doc \in StoreDocs}

StoreCall(op, rd, before, result, doc, saved) ==
    [op |-> op, rd |-> rd, before |-> before, result |-> result, doc |-> doc,
     saved |-> saved]

InitStore ==
    /\ fs = DirMap(<<>>, <<>>)
    /\ stat = DirMap(<<>>, <<>>)
    /\ json_file = Absent
    /\ \E file \in {Absent} \cup {FileOf(t) : t \in StoreTexts} :
          disk = DirMap(file, Absent)
    /\ last = StoreCall("init", "ok", Absent, [raised |-> FALSE, val |-> EmptyDict],
                        EmptyDict, FALSE)
    /\ nops = 0
    /\ nfaults = 0
    /\ tagOnly = FALSE

\* _load_metadata("."), first or after a save.
LoadCall(rd) ==
    /\ last.op # "load"
    /\ last' = StoreCall("load", rd, disk["."], LoadMetadata(disk["."], rd),
                         last.doc, last.saved)
    /\ UNCHANGED <<fs, disk, nops, nfaults, tagOnly, stat, json_file>>

\* _save_metadata(".", doc) as the first call.
SaveCall(doc, wr) ==
    /\ last.op = "init"
    /\ LET res == SaveMetadata(".", disk["."], doc, wr)
       IN  /\ disk' = DirPut(disk, ".", res.file)
           /\ last' = StoreCall("save", "ok", Absent, last.result, doc, res.ok)
    /\ UNCHANGED <<fs, nops, nfaults, tagOnly, stat, json_file>>

NextStore ==
    \/ \E rd \in ReadOutcomes : LoadCall(rd)
    \/ \E doc \in StoreDocs, wr \in {WriteOk} \cup WriteFaults : SaveCall(doc, wr)

SpecStore == InitStore /\ [][NextStore]_vars

\* The numbers of opening and of closing brackets of a text differ.
RECURSIVE Depth(_)
Depth(toks) ==
    IF toks = <<>> THEN 0
    ELSE Depth(Tail(toks))
           + (IF Head(toks) \in {L_lbrace, L_lbrack} THEN 1
              ELSE IF Head(toks) \in {L_rbrace, L_rbrack} THEN -1 ELSE 0)
Unbalanced(toks) == Depth(toks) # 0

AllBlank(toks) == \A i \in 1..Len(toks) : toks[i] = L_ws

\* C2: _load_metadata never raises, and it returns the empty document when
\* the sidecar file is missing, is empty or blank, cannot be read, or holds
\* text that does not parse (json.loads rejects it; in particular text with
\* unbalanced brackets, text holding a character no JSON value has, and
\* every truncated document).
C2_LoadNeverRaises ==
    last.op = "load" =>
        /\ ~last.result.raised
        /\ (\/ ~last.before.exists
            \/ last.rd # "ok"
            \/ AllBlank(last.before.text)
            \/ Unbalanced(last.before.text)
            \/ \E i \in 1..Len(last.before.text) : last.before.text[i] = L_bad
            \/ \E doc \in StoreDocs : last.before.text \in Truncations(doc)
            \/ ~JsonLoads(TextStrip(last.before.text)).ok)
           => last.result.val = EmptyDict

\* C2 witness: a load of a sidecar file holding OldStore cut short in the
\* middle has returned.
C2_Witness ==
    /\ last.op = "load"
    /\ last.rd = "ok"
    /\ last.before.exists
    /\ last.before.text \in Truncations(OldStore)
    /\ Len(last.before.text) > 10

\* C3: a load that reads the file a successful save of document D wrote
\* returns D.
C3_RoundTrip ==
    (last.op = "load" /\ last.saved /\ last.rd = "ok") =>
        /\ ~last.result.raised
        /\ last.result.val = last.doc

\* C3 witness: the document with the reserved key, a mood with a name, and a
\* three-tag list has been saved and loaded.
C3_Witness ==
    /\ last.op = "load"
    /\ last.saved
    /\ last.rd = "ok"
    /\ last.doc = MoodAndTags
    /\ disk["."] = FileOf(Dump(MoodAndTags))

\* ------------------------------------------------------ files and queries
\* What os.stat and a read give for a regular file: its size in bytes, its
\* modification and creation times in seconds, and its content (a text).
FileStat(name, size, mtime, ctime, data) ==
    [name |-> name, size |-> size, mtime |-> mtime, ctime |-> ctime, data |-> data]

\* The names of the files of each directory, in listing order.
RECURSIVE NamesOf(_)
NamesOf(files) ==
    IF files = <<>> THEN <<>> ELSE <<Head(files).name>> \o NamesOf(Tail(files))

\* os.stat(os.path.join(d, name)) of a regular file.
StatOf(st, d, name) == st[d][CHOOSE i \in 1..Len(st[d]) : st[d][i].name = name]

SecondsPerDay == 86400

\* A variant of _is_file_older_than with >= for >.
IsFileAtLeast(mtime, days, now) == now - mtime >= days * SecondsPerDay

\* _is_file_older_than(filepath, days) at time now:
\* datetime.now() - mod_time > timedelta(days=days).
IsFileOlderThan(mtime, days, now) == now - mtime > days * SecondsPerDay

\* A Python int.
PyInt(n) == [k |-> "int", s |-> <<n>>, items |-> <<>>]
PyList(vals) == [k |-> "list", s |-> <<>>, items |-> vals]

\* str.lower() on letters A-Z.
RECURSIVE StrLower(_)
StrLower(s) ==
    IF s = <<>> THEN <<>>
    ELSE <<IF Head(s) >= 65 /\ Head(s) <= 90 THEN Head(s) + 32 ELSE Head(s)>>
         \o StrLower(Tail(s))

\* os.path.splitext(filename)[1].lstrip('.').lower(): what follows the last
\* dot (46), unless only dots precede it.
LastDot(name) ==
    LET dots == {i \in 1..Len(name) : name[i] = 46 /\ \E j \in 1..(i - 1) : name[j] # 46}
    IN  IF dots = {} THEN 0 ELSE CHOOSE i \in dots : \A j \in dots : j <= i
FileType(name) ==
    IF LastDot(name) = 0 THEN <<>>
    ELSE StrLower(SubSeq(name, LastDot(name) + 1, Len(name)))

\* The outcome of one Python expression: the exception it raises ("none"
\* when it raises none) and its value.
Value(v) == [exc |-> "none", val |-> v]
Raise(exc) == [exc |-> exc, val |-> PyNone]

\* sub in s, for strings.
IsSubstring(sub, s) ==
    \E i \in 1..(Len(s) - Len(sub) + 1) : SubSeq(s, i, i + Len(sub) - 1) = sub

\* key in obj: a key of a dict, an element of a list, a substring of a str;
\* TypeError for None and numbers.
In(key, obj) ==
    CASE obj.k = "dict" -> Value(DictHas(obj, key))
      [] obj.k = "list" ->
            Value(\E i \in 1..Len(obj.items) : obj.items[i].val = PyStr(key))
      [] obj.k = "str" -> Value(IsSubstring(key, obj.s))
      [] OTHER -> Raise("TypeError")

\* obj[key] with a string key: TypeError unless obj is a dict.
Subscript(obj, key) ==
    IF obj.k = "dict" THEN Value(DictGet(obj, key)) ELSE Raise("TypeError")

\* v.lower(): AttributeError unless v is a str.
LowerOf(v) ==
    IF v.k = "str" THEN Value(PyStr(StrLower(v.s))) ELSE Raise("AttributeError")

\* int(v): an int as it is, a str of digits with an optional sign and
\* blanks around it as its value, ValueError for another str, TypeError for
\* None, lists and dicts.
RECURSIVE DigitsValue(_)
DigitsValue(ds) ==
    IF ds = <<>> THEN 0 ELSE 10 * DigitsValue(SubSeq(ds, 1, Len(ds) - 1)) + (ds[Len(ds)] - 48)
IntOfStr(s) ==
    LET t == StrStrip(s)
        neg == t # <<>> /\ t[1] = 45
        ds == IF t # <<>> /\ t[1] \in {43, 45} THEN Tail(t) ELSE t
    IN  IF ds # <<>> /\ \A i \in 1..Len(ds) : ds[i] >= 48 /\ ds[i] <= 57
        THEN Value(IF neg THEN 0 - DigitsValue(ds) ELSE DigitsValue(ds))
        ELSE Raise("ValueError")
IntOf(v) ==
    CASE v.k = "int" -> Value(v.s[1])
      [] v.k = "str" -> IntOfStr(v.s)
      [] OTHER -> Raise("TypeError")

\* tag in lst
ListHas(lst, v) == \E i \in 1..Len(lst.items) : lst.items[i].val = v

\* file_metadata of search_meta: the stat facts and the stored attributes.
FileMetadata(metadata, file) ==
    LET rec == DictGetOr(metadata, file.name, EmptyDict)
        mood == DictGetOr(rec, K_mood, EmptyDict)
    IN  [name |-> file.name, size |-> file.size, mtime |-> file.mtime,
         type |-> FileType(file.name),
         tags |-> DictGetOr(rec, K_tags, EmptyList),
         mood |-> DictGetOr(mood, K_value, PyNone),
         mood_name |-> DictGetOr(mood, K_name, PyNone)]

\* -------------------------------------------------------------- search_meta
\* The keys of a query: "type", "size", "gt", "lt", "ageDays", "mood_name"
\* (and "tags", "mood" as in the store).
Q_type == <<116,121,112,101>>
Q_size == <<115,105,122,101>>
Q_gt == <<103,116>>
Q_lt == <<108,116>>
Q_ageDays == <<97,103,101,68,97,121,115>>
Q_mood_name == <<109,111,111,100,95,110,97,109,101>>

\* `key in obj` and then obj[key]: whether the field is present, its value,
\* and the exception raised on the way.
Field(obj, key) ==
    LET has == In(key, obj)
    IN  IF has.exc # "none" THEN [exc |-> has.exc, present |-> FALSE, val |-> PyNone]
        ELSE IF ~has.val THEN [exc |-> "none", present |-> FALSE, val |-> PyNone]
        ELSE [exc |-> Subscript(obj, key).exc,
              present |-> Subscript(obj, key).exc = "none",
              val |-> Subscript(obj, key).val]

\* One condition of the query on one file: the exception it raises, or
\* whether it leaves match as it is (val TRUE) or sets it to False.
\* if "type" in query and file_metadata["type"] != query["type"].lower()
TypeCond(query, fm) ==
    LET f == Field(query, Q_type)
    IN  IF f.exc # "none" THEN Raise(f.exc)
        ELSE IF ~f.present THEN Value(TRUE)
        ELSE IF LowerOf(f.val).exc # "none" THEN Raise(LowerOf(f.val).exc)
        ELSE Value(PyStr(fm.type) = LowerOf(f.val).val)

\* file_size > bound, file_size < bound: TypeError unless bound is a number.
Bound(sz, key, size, greater) ==
    LET f == Field(sz, key)
    IN  IF f.exc # "none" THEN Raise(f.exc)
        ELSE IF ~f.present THEN Value(TRUE)
        ELSE IF f.val.k # "int" THEN Raise("TypeError")
        ELSE Value(IF greater THEN size > f.val.s[1] ELSE size < f.val.s[1])

\* if "size" in query: the gt bound, then the lt bound.
SizeCond(query, fm) ==
    LET f == Field(query, Q_size)
    IN  IF f.exc # "none" THEN Raise(f.exc)
        ELSE IF ~f.present THEN Value(TRUE)
        ELSE IF Bound(f.val, Q_gt, fm.size, TRUE).exc # "none"
        THEN Raise(Bound(f.val, Q_gt, fm.size, TRUE).exc)
        ELSE IF Bound(f.val, Q_lt, fm.size, FALSE).exc # "none"
        THEN Raise(Bound(f.val, Q_lt, fm.size, FALSE).exc)
        ELSE Value(Bound(f.val, Q_gt, fm.size, TRUE).val
                   /\ Bound(f.val, Q_lt, fm.size, FALSE).val)

\* if "ageDays" in query: required_age = int(query["ageDays"]);
\* not _is_file_older_than(filepath, required_age)
AgeCond(query, fm, now) ==
    LET f == Field(query, Q_ageDays)
    IN  IF f.exc # "none" THEN Raise(f.exc)
        ELSE IF ~f.present THEN Value(TRUE)
        ELSE IF IntOf(f.val).exc # "none" THEN Raise(IntOf(f.val).exc)
        ELSE Value(IsFileOlderThan(fm.mtime, IntOf(f.val).val, now))

\* A variant of the tags condition with any() for all().
TagsCondAny(query, fm) ==
    LET f == Field(query, K_tags)
    IN  IF f.exc # "none" THEN Raise(f.exc)
        ELSE IF ~f.present THEN Value(TRUE)
        ELSE IF f.val.k = "list"
        THEN Value(\E i \in 1..Len(f.val.items) : ListHas(fm.tags, f.val.items[i].val))
        ELSE IF f.val.k = "str" THEN Value(ListHas(fm.tags, f.val))
        ELSE Value(TRUE)

\* if "tags" in query: a list needs all its elements among the file's tags,
\* a str needs to be one of them, anything else is passed over.
TagsCond(query, fm) ==
    LET f == Field(query, K_tags)
    IN  IF f.exc # "none" THEN Raise(f.exc)
        ELSE IF ~f.present THEN Value(TRUE)
        ELSE IF f.val.k = "list"
        THEN Value(\A i \in 1..Len(f.val.items) : ListHas(fm.tags, f.val.items[i].val))
        ELSE IF f.val.k = "str" THEN Value(ListHas(fm.tags, f.val))
        ELSE Value(TRUE)

\* if "mood" in query and file_metadata.get("mood") != query["mood"].lower()
MoodCond(query, fm) ==
    LET f == Field(query, K_mood)
    IN  IF f.exc # "none" THEN Raise(f.exc)
        ELSE IF ~f.present THEN Value(TRUE)
        ELSE IF LowerOf(f.val).exc # "none" THEN Raise(LowerOf(f.val).exc)
        ELSE Value(fm.mood = LowerOf(f.val).val)

\* if "mood_name" in query and file_metadata.get("mood_name") != query["mood_name"]
MoodNameCond(query, fm) ==
    LET f == Field(query, Q_mood_name)
    IN  IF f.exc # "none" THEN Raise(f.exc)
        ELSE IF ~f.present THEN Value(TRUE)
        ELSE Value(fm.mood_name = f.val)

\* A variant of the evaluation that passes over the mood conditions.
EvaluateNoMood(query, fm, now) ==
    LET cs == <<TypeCond(query, fm), SizeCond(query, fm), AgeCond(query, fm, now),
                TagsCond(query, fm)>>
        bad == {i \in 1..4 : cs[i].exc # "none"}
    IN  IF bad = {} THEN Value(\A i \in 1..4 : cs[i].val)
        ELSE Raise(cs[CHOOSE i \in bad : \A j \in bad : i <= j].exc)

\* The conditions in the order of the code: the first exception ends the
\* evaluation; without one, match is the conjunction.
Evaluate(query, fm, now) ==
    LET cs == <<TypeCond(query, fm), SizeCond(query, fm), AgeCond(query, fm, now),
                TagsCond(query, fm), MoodCond(query, fm), MoodNameCond(query, fm)>>
        bad == {i \in 1..6 : cs[i].exc # "none"}
    IN  IF bad = {} THEN Value(\A i \in 1..6 : cs[i].val)
        ELSE Raise(cs[CHOOSE i \in bad : \A j \in bad : i <= j].exc)

\* The directories os.walk(top) visits, a directory before its children.
RECURSIVE WalkDirs(_), WalkDirsEach(_)
WalkDirs(top) == <<top>> \o WalkDirsEach(SubDirs(top))
WalkDirsEach(ds) ==
    IF ds = <<>> THEN <<>> ELSE WalkDirs(Head(ds)) \o WalkDirsEach(Tail(ds))

\* The account of a walk: how it ended ("summary" once the final line is
\* printed, "raised" when an exception left the function), the exception,
\* the paths reported, the paths with a per-entry error, the loads, and the
\* loads and the files examined in the order they happened, each with the
\* document returned or used.
Walked ==
    [status |-> "summary", exc |-> "none", found |-> <<>>, errors |-> <<>>,
     loads |-> DirMap(0, 0), events |-> <<>>]

\* metadata = _load_metadata(root) at the head of a directory's visit.
Loaded(acc, root, metadata) ==
    [acc EXCEPT !.loads = Bump(acc.loads, root),
                !.events = Append(acc.events,
                                  [kind |-> "load", dir |-> root, name |-> <<>>,
                                   doc |-> metadata])]

\* A variant of the loop body that loads the document again for each file,
\* as the loop of tag_file does.
ExaminedAfterLoad(acc, root, name, metadata) ==
    [Loaded(acc, root, metadata) EXCEPT
        !.events = Append(Loaded(acc, root, metadata).events,
                          [kind |-> "file", dir |-> root, name |-> name, doc |-> metadata])]

\* One pass of `for filename in files` past the sidecar test, with the
\* document it reads the file's entry from.
Examined(acc, root, name, metadata) ==
    [acc EXCEPT !.events = Append(acc.events,
                                  [kind |-> "file", dir |-> root, name |-> name,
                                   doc |-> metadata])]

\* The body of `for filename in files` of search_meta for one file.
SearchEntry(acc, root, name, r) ==
    IF r.exc \in {"ValueError", "OSError"}
    THEN [acc EXCEPT !.errors = Append(acc.errors, FilePath(root, name))]
    ELSE IF r.exc # "none" THEN [acc EXCEPT !.status = "raised", !.exc = r.exc]
    ELSE IF r.val THEN [acc EXCEPT !.found = Append(acc.found, FilePath(root, name))]
    ELSE acc

RECURSIVE SearchFiles(_, _, _, _, _, _, _)
SearchFiles(acc, root, names, metadata, query, now, st) ==
    IF names = <<>> \/ acc.status = "raised" THEN acc
    ELSE IF Head(names) = METADATA_FILE
    THEN SearchFiles(acc, root, Tail(names), metadata, query, now, st)
    ELSE SearchFiles(SearchEntry(Examined(acc, root, Head(names), metadata), root,
                                 Head(names),
                                 Evaluate(query,
                                          FileMetadata(metadata, StatOf(st, root, Head(names))),
                                          now)),
                     root, Tail(names), metadata, query, now, st)

\* for root, _, files in os.walk(folder): load the document, then the files.
RECURSIVE SearchDirs(_, _, _, _, _, _, _)
SearchDirs(acc, roots, query, now, st, dsk, files) ==
    IF roots = <<>> \/ acc.status = "raised" THEN acc
    ELSE SearchDirs(SearchFiles(Loaded(acc, Head(roots),
                                       LoadMetadata(dsk[Head(roots)], "ok").val),
                                Head(roots), Listing(Head(roots), dsk, files),
                                LoadMetadata(dsk[Head(roots)], "ok").val, query, now, st),
                    Tail(roots), query, now, st, dsk, files)

\* search_meta(folder, json_query_str); q is what json.loads makes of the
\* query string.
SearchMetaResult(folder, q, now, st, dsk, files) ==
    IF ~IsDir(DirPath(folder)) THEN [Walked EXCEPT !.status = "notfound"]
    ELSE IF ~q.ok THEN [Walked EXCEPT !.status = "badquery"]
    ELSE SearchDirs(Walked, WalkDirs(folder), q.val, now, st, dsk, files)

\* --------------------------------------------------------------- search_tag
\* The body of `for filename in files` of search_tag for one file.
TagEntryFound(metadata, name, tag) ==
    /\ DictHas(metadata, name)
    /\ DictHas(DictGet(metadata, name), K_tags)
    /\ ListHas(DictGet(DictGet(metadata, name), K_tags), PyStr(tag))

RECURSIVE SearchTagFiles(_, _, _, _, _)
SearchTagFiles(acc, root, names, metadata, tag) ==
    IF names = <<>> THEN acc
    ELSE IF Head(names) = METADATA_FILE
    THEN SearchTagFiles(acc, root, Tail(names), metadata, tag)
    ELSE SearchTagFiles(IF TagEntryFound(metadata, Head(names), tag)
                        THEN [Examined(acc, root, Head(names), metadata) EXCEPT
                                 !.found = Append(acc.found, FilePath(root, Head(names)))]
                        ELSE Examined(acc, root, Head(names), metadata),
                        root, Tail(names), metadata, tag)

RECURSIVE SearchTagDirs(_, _, _, _, _)
SearchTagDirs(acc, roots, tag, dsk, files) ==
    IF roots = <<>> THEN acc
    ELSE SearchTagDirs(SearchTagFiles(Loaded(acc, Head(roots),
                                             LoadMetadata(dsk[Head(roots)], "ok").val),
                                      Head(roots), Listing(Head(roots), dsk, files),
                                      LoadMetadata(dsk[Head(roots)], "ok").val, tag),
                       Tail(roots), tag, dsk, files)

\* search_tag(folder, tag)
SearchTagResult(folder, tag, dsk, files) ==
    IF ~IsDir(DirPath(folder)) THEN [Walked EXCEPT !.status = "notfound"]
    ELSE SearchTagDirs(Walked, WalkDirs(folder), tag, dsk, files)

\* --------------------------------------------------------------- export_map
\* The keys of the catalog: "files", "subdirectories", "name",
\* "last_modified", "created"; the root's key "/"; the directory name "s".
E_files == <<102,105,108,101,115>>
E_subdirectories == <<115,117,98,100,105,114,101,99,116,111,114,105,101,115>>
E_name == <<110,97,109,101>>
E_last_modified == <<108,97,115,116,95,109,111,100,105,102,105,101,100>>
E_created == <<99,114,101,97,116,101,100>>
E_root == <<47>>
E_s == <<115>>

\* datetime.fromtimestamp(t).isoformat(): the time as text.  The decimal
\* digits of the seconds stand for the calendar form.
IsoFormat(t) == DecimalStr(t)

\* d.update(other): each item of other set in d, in order.
RECURSIVE DictUpdate(_, _)
DictUpdate(d, items) ==
    IF items = <<>> THEN d
    ELSE DictUpdate(DictSet(d, Head(items).key, Head(items).val), Tail(items))

\* file_info of export_map: the stat fields, then the stored record over them.
FileInfo(file) ==
    PyDict(<<Item(E_name, PyStr(file.name)),
             Item(Q_size, PyInt(file.size)),
             Item(E_last_modified, PyStr(IsoFormat(file.mtime))),
             Item(E_created, PyStr(IsoFormat(file.ctime))),
             Item(Q_type, PyStr(FileType(file.name)))>>)
FileInfoMerged(file, folder_metadata) ==
    IF DictHas(folder_metadata, file.name)
    THEN DictUpdate(FileInfo(file), DictGet(folder_metadata, file.name).items)
    ELSE FileInfo(file)

\* for f in files: the records of the files of root, the sidecar file skipped.
RECURSIVE ExportFiles(_, _, _, _)
ExportFiles(root, names, folder_metadata, st) ==
    IF names = <<>> THEN EmptyList
    ELSE IF Head(names) = METADATA_FILE
    THEN ExportFiles(root, Tail(names), folder_metadata, st)
    ELSE PyList(<<Item(<<>>, FileInfoMerged(StatOf(st, root, Head(names)), folder_metadata))>>
                \o ExportFiles(root, Tail(names), folder_metadata, st).items)

\* os.path.relpath(root, folder), "" for the folder itself.
RelPath(root, folder) == IF root = folder THEN <<>> ELSE E_s
\* dirs of os.walk at root.
SubDirNames(root) == IF SubDirs(root) = <<>> THEN <<>> ELSE <<E_s>>

\* folder_data for one directory.
FolderData(root, folder_metadata, st, dsk, files) ==
    LET reserved == DictGetOr(folder_metadata, FOLDER_KEY, EmptyDict)
        base == PyDict(<<Item(E_files,
                              ExportFiles(root, Listing(root, dsk, files), folder_metadata, st)),
                         Item(E_subdirectories, StrList(SubDirNames(root)))>>)
    IN  IF DictHas(reserved, K_mood)
        THEN DictSet(base, K_mood, DictGet(reserved, K_mood))
        ELSE base

RECURSIVE ExportDirs(_, _, _, _, _, _)
ExportDirs(file_map, roots, folder, st, dsk, files) ==
    IF roots = <<>> THEN file_map
    ELSE ExportDirs(
            DictSet(file_map,
                    IF RelPath(Head(roots), folder) = <<>> THEN E_root
                    ELSE RelPath(Head(roots), folder),
                    FolderData(Head(roots), LoadMetadata(dsk[Head(roots)], "ok").val,
                               st, dsk, files)),
            Tail(roots), folder, st, dsk, files)

\* The loads and the files of the walk of export_map in their order: for
\* each root the load, then `for f in files` with the loaded document.
RECURSIVE ExportWalkFiles(_, _, _, _)
ExportWalkFiles(acc, root, names, folder_metadata) ==
    IF names = <<>> THEN acc
    ELSE IF Head(names) = METADATA_FILE
    THEN ExportWalkFiles(acc, root, Tail(names), folder_metadata)
    ELSE ExportWalkFiles(Examined(acc, root, Head(names), folder_metadata),
                         root, Tail(names), folder_metadata)

RECURSIVE ExportWalk(_, _, _, _)
ExportWalk(acc, roots, dsk, files) ==
    IF roots = <<>> THEN acc
    ELSE ExportWalk(ExportWalkFiles(Loaded(acc, Head(roots),
                                           LoadMetadata(dsk[Head(roots)], "ok").val),
                                    Head(roots), Listing(Head(roots), dsk, files),
                                    LoadMetadata(dsk[Head(roots)], "ok").val),
                    Tail(roots), dsk, files)

\* export_map(folder, json_file): the catalog handed to json.dump.
ExportMapResult(folder, st, dsk, files) ==
    IF ~IsDir(DirPath(folder))
    THEN [status |-> "notfound", catalog |-> EmptyDict, events |-> <<>>]
    ELSE [status |-> "summary",
          catalog |-> ExportDirs(EmptyDict, WalkDirs(folder), folder, st, dsk, files),
          events |-> ExportWalk(Walked, WalkDirs(folder), dsk, files).events]

\* try: with open(json_file, 'w') as f: json.dump(file_map, f, indent=4)
\* except IOError: the file at json_file afterwards, and whether the write
\* completed.  open() truncates the file before the first lexeme is written.
ExportWrite(file, file_map, wr) ==
    IF wr.kind = "denied" THEN [file |-> file, ok |-> FALSE]
    ELSE IF wr.kind = "partial"
    THEN [file |-> FileOf(SubSeq(Dump(file_map), 1, Min(wr.cut, Len(Dump(file_map)) - 1))),
          ok |-> FALSE]
    ELSE [file |-> FileOf(Dump(file_map)), ok |-> TRUE]

\* The account of an export_map run: how it ended, the catalog, the file at
\* json_file before the run, whether the write completed.
Exported(r, before, written) ==
    [status |-> r.status, catalog |-> r.catalog, events |-> r.events,
     before |-> before, written |-> written]

\* export_map(folder, json_file) as a whole: the walk, then the write unless
\* the folder was not found.
ExportMapRun(folder, wr, st, dsk, files, file) ==
    IF ExportMapResult(folder, st, dsk, files).status = "notfound"
    THEN [file |-> file,
          account |-> Exported(ExportMapResult(folder, st, dsk, files), file, FALSE)]
    ELSE [file |-> ExportWrite(file, ExportMapResult(folder, st, dsk, files).catalog, wr).file,
          account |-> Exported(ExportMapResult(folder, st, dsk, files), file,
                               ExportWrite(file,
                                           ExportMapResult(folder, st, dsk, files).catalog,
                                           wr).ok)]

\* ------------------------------------------------ the queries on their own
\* One run of search_meta, search_tag or export_map on a tree as it stands:
\* a.txt (5 bytes) and note.md (empty) in ".", b.txt (5 bytes) in "./s".
\* "urgent", "missing", "TXT", "md", "Happy", "sad", "other", "exe", "x", "abc"
T_urgent == <<117,114,103,101,110,116>>
T_missing == <<109,105,115,115,105,110,103>>
V_TXT == <<84,88,84>>
V_md == <<109,100>>
V_Happy == <<72,97,112,112,121>>
V_sad == <<115,97,100>>
V_other == <<111,116,104,101,114>>
V_exe == <<101,120,101>>
V_x == <<120>>
V_abc == <<97,98,99>>
D_hello == <<L_str(<<104,101,108,108,111>>)>>

\* a.txt was modified at T_a, note.md long before, b.txt a day after a.txt.
T_a == 1000
T_old == 500
QueryTree ==
    DirMap(<<FileStat(F_a, 5, T_a, T_a - 10, D_hello),
             FileStat(F_none, 0, T_old, T_old, <<>>)>>,
           <<FileStat(F_b, 5, T_a + SecondsPerDay, T_a + SecondsPerDay, D_hello)>>)

\* The times a command runs at: seven days after T_a to the second, and one
\* second later.
Nows == {T_a + 7 * SecondsPerDay, T_a + 7 * SecondsPerDay + 1}

\* Stores: one with moods and tags on a.txt and b.txt, the directory mood
\* and an entry for a file that is gone; none; one whose record of a.txt
\* holds fields named like stat fields, beside a sidecar cut short.
TaggedRoot ==
    PyDict(<<Item(FOLDER_KEY, PyDict(<<Item(K_mood, MoodRecord(S_happy, PyNone))>>)),
             Item(F_a, PyDict(<<Item(K_tags, StrList(<<T_urgent>>)),
                                Item(K_mood, MoodRecord(S_happy, PyStr(S_Trip)))>>)),
             Item(F_ghost, PyDict(<<Item(K_tags, StrList(<<T_urgent>>))>>))>>)
TaggedSub ==
    PyDict(<<Item(F_b, PyDict(<<Item(K_tags, StrList(<<<<65>>, T_urgent>>)),
                                Item(K_mood, MoodRecord(V_Happy, PyNone))>>))>>)
ExtraFields ==
    PyDict(<<Item(F_a, PyDict(<<Item(K_tags, StrList(<<V_x>>)),
                                Item(E_name, PyStr(V_other)),
                                Item(Q_type, PyStr(V_exe))>>))>>)
QueryStores ==
    {DirMap(FileOf(Dump(TaggedRoot)), FileOf(Dump(TaggedSub))),
     DirMap(Absent, Absent),
     DirMap(FileOf(Dump(ExtraFields)), FileOf(SubSeq(Dump(TaggedSub), 1, 7)))}

\* A query from one option per field; NoField leaves the field out.
NoField == [k |-> "absent", s |-> <<>>, items |-> <<>>]
QueryOf(type, size, age, tags, mood, mood_name) ==
    PyDict(SelectSeq(<<Item(Q_type, type), Item(Q_size, size), Item(Q_ageDays, age),
                       Item(K_tags, tags), Item(K_mood, mood),
                       Item(Q_mood_name, mood_name)>>,
                     LAMBDA it : it.val # NoField))
SizeRange(gt, lt) ==
    PyDict(SelectSeq(<<Item(Q_gt, gt), Item(Q_lt, lt)>>, LAMBDA it : it.val # NoField))

\* Queries whose values have the types of the query schema.
TypedQueries ==
    {QueryOf(t, z, a, g, m, n) :
        t \in {NoField, PyStr(V_TXT), PyStr(V_md)},
        z \in {NoField, SizeRange(PyInt(4), PyInt(6)), SizeRange(PyInt(5), NoField),
               SizeRange(NoField, PyInt(5))},
        a \in {NoField, PyInt(7), PyInt(6)},
        g \in {NoField, StrList(<<T_urgent>>), StrList(<<T_urgent, T_missing>>),
               PyStr(T_urgent), EmptyList},
        m \in {NoField, PyStr(V_Happy), PyStr(V_sad)},
        n \in {NoField, PyStr(S_Trip)}}

\* Queries with a value of another type in one field.
OddQueries ==
    {QueryOf(PyInt(5), NoField, NoField, NoField, NoField, NoField),
     QueryOf(NoField, PyInt(5), NoField, NoField, NoField, NoField),
     QueryOf(NoField, SizeRange(PyStr(V_x), NoField), NoField, NoField, NoField, NoField),
     QueryOf(NoField, NoField, PyStr(V_abc), NoField, NoField, NoField),
     QueryOf(NoField, NoField, PyStr(<<32, 54>>), NoField, NoField, NoField),
     QueryOf(NoField, NoField, PyNone, NoField, NoField, NoField),
     QueryOf(NoField, NoField, NoField, PyInt(5), NoField, NoField),
     QueryOf(NoField, NoField, NoField, NoField, PyInt(5), NoField),
     QueryOf(NoField, NoField, NoField, NoField, PyNone, NoField),
     QueryOf(NoField, NoField, NoField, NoField, NoField, PyNone),
     QueryOf(NoField, NoField, NoField, NoField, NoField, PyInt(5)),
     EmptyList, PyNone}

\* What json.loads makes of the query strings given: a value, or a failure.
QueryArgs ==
    {[ok |-> TRUE, val |-> q] : q \in TypedQueries \cup OddQueries}
      \cup {[ok |-> FALSE, val |-> PyNone]}

\* The catalog an earlier export_map("./s", json_file) left at json_file.
PriorCatalog ==
    Dump(ExportMapResult("./s", QueryTree, DirMap(Absent, Absent),
                         DirMap(NamesOf(QueryTree["."]), NamesOf(QueryTree["./s"]))).catalog)

Asked(op, folder, q, tag, now, result) ==
    [op |-> op, folder |-> folder, q |-> q, tag |-> tag, now |-> now, result |-> result]

InitQuery ==
    /\ stat = QueryTree
    /\ json_file \in {Absent, FileOf(PriorCatalog)}
    /\ fs = DirMap(NamesOf(QueryTree["."]), NamesOf(QueryTree["./s"]))
    /\ disk \in QueryStores
    /\ last = Asked("init", ".", [ok |-> FALSE, val |-> PyNone], <<>>, 0, Walked)
    /\ nops = 0
    /\ nfaults = 0
    /\ tagOnly = FALSE

SearchMeta(folder, q, now) ==
    /\ last.op = "init"
    /\ last' = Asked("search_meta", folder, q, <<>>, now,
                     SearchMetaResult(folder, q, now, stat, disk, fs))
    /\ UNCHANGED <<fs, disk, nops, nfaults, tagOnly, stat, json_file>>

SearchTag(folder, tag) ==
    /\ last.op = "init"
    /\ last' = Asked("search_tag", folder, [ok |-> FALSE, val |-> PyNone], tag, 0,
                     SearchTagResult(folder, tag, disk, fs))
    /\ UNCHANGED <<fs, disk, nops, nfaults, tagOnly, stat, json_file>>

ExportMap(folder, wr) ==
    /\ last.op = "init"
    /\ json_file' = ExportMapRun(folder, wr, stat, disk, fs, json_file).file
    /\ last' = Asked("export_map", folder, [ok |-> FALSE, val |-> PyNone], <<>>, 0,
                     ExportMapRun(folder, wr, stat, disk, fs, json_file).account)
    /\ UNCHANGED <<fs, disk, nops, nfaults, tagOnly, stat>>

NextQuery ==
    \/ \E folder \in Dirs, q \in QueryArgs, now \in Nows : SearchMeta(folder, q, now)
    \/ \E folder \in Dirs, tag \in {T_urgent, T_missing, <<65>>} : SearchTag(folder, tag)
    \/ \E folder \in Dirs, wr \in {WriteOk} \cup WriteFaults : ExportMap(folder, wr)

SpecQuery == InitQuery /\ [][NextQuery]_vars

\* The regular files a walk from folder meets, and the facts of one.
RegularPaths(folder) ==
    UNION {{FilePath(d, n) : n \in SeqToSet(fs[d])} : d \in SeqToSet(WalkDirs(folder))}
FactsOf(p) == FileMetadata(Doc(p.dir), StatOf(stat, p.dir, p.name))
HasStoredMood(p) ==
    /\ DictHas(Doc(p.dir), p.name)
    /\ DictHas(DictGet(Doc(p.dir), p.name), K_mood)

\* A search_meta run on an existing folder with a query that parsed to an
\* object.
MetaSearched ==
    /\ last.op = "search_meta"
    /\ last.q.ok
    /\ last.q.val.k = "dict"

\* C11: a query field with a value of the wrong type ends the evaluation of
\* the current entry only: search_meta always goes on to the next entry and
\* reaches its final summary, no exception leaves it.
C11_BadValueRecovered ==
    MetaSearched => last.result.status = "summary"

\* What each field of a query of the schema asks of a file's facts.
AsksType(q, fm) == DictHas(q, Q_type) => fm.type = StrLower(DictGet(q, Q_type).s)
AsksSize(q, fm) ==
    DictHas(q, Q_size) =>
        /\ DictHas(DictGet(q, Q_size), Q_gt) =>
              fm.size > DictGet(DictGet(q, Q_size), Q_gt).s[1]
        /\ DictHas(DictGet(q, Q_size), Q_lt) =>
              fm.size < DictGet(DictGet(q, Q_size), Q_lt).s[1]
AsksAge(q, fm, now) ==
    DictHas(q, Q_ageDays) =>
        now - fm.mtime > DictGet(q, Q_ageDays).s[1] * SecondsPerDay
AsksTags(q, fm) ==
    DictHas(q, K_tags) =>
        IF DictGet(q, K_tags).k = "list"
        THEN StrSetOf(DictGet(q, K_tags)) \subseteq StrSetOf(fm.tags)
        ELSE DictGet(q, K_tags).s \in StrSetOf(fm.tags)
AsksMood(q, fm) ==
    DictHas(q, K_mood) => fm.mood = PyStr(StrLower(DictGet(q, K_mood).s))
AsksMoodName(q, fm) ==
    DictHas(q, Q_mood_name) => fm.mood_name = DictGet(q, Q_mood_name)

\* The reported paths of a walk are exactly the set S, each once.
FoundExactly(S) ==
    /\ SeqToSet(last.result.found) = S
    /\ Len(last.result.found) = Cardinality(S)

\* C12: for a query whose values have the types of the schema, search_meta
\* reports exactly the regular files of the walk whose facts satisfy every
\* field present in the query; an absent field asks nothing, and the empty
\* query reports every regular file and never the sidecar file.
C12_AllPresentFields ==
    (MetaSearched /\ last.q.val \in TypedQueries) =>
        /\ last.result.status = "summary"
        /\ last.result.errors = <<>>
        /\ FoundExactly({p \in RegularPaths(last.folder) :
              /\ AsksType(last.q.val, FactsOf(p))
              /\ AsksSize(last.q.val, FactsOf(p))
              /\ AsksAge(last.q.val, FactsOf(p), last.now)
              /\ AsksTags(last.q.val, FactsOf(p))
              /\ AsksMood(last.q.val, FactsOf(p))
              /\ AsksMoodName(last.q.val, FactsOf(p))})
        /\ last.q.val = EmptyDict => FoundExactly(RegularPaths(last.folder))

\* C12 witness: a query with type, size, tags and mood_name has reported
\* a.txt and not the other files of the walk from ".".
C12_Witness ==
    /\ MetaSearched
    /\ last.folder = "."
    /\ last.q.val = QueryOf(PyStr(V_TXT), SizeRange(PyInt(4), PyInt(6)), NoField,
                            StrList(<<T_urgent>>), NoField, PyStr(S_Trip))
    /\ last.result.found = <<FilePath(".", F_a)>>

\* A query with the tags field alone.
TagsOnly(g) == QueryOf(NoField, NoField, NoField, g, NoField, NoField)

\* C13: with tags given as a list, search_meta reports exactly the files
\* whose stored tags hold every listed tag; with tags given as one string,
\* exactly the files whose stored tags hold that string.
C13_TagsAllListed ==
    /\ \A g \in {StrList(<<T_urgent>>), StrList(<<T_urgent, T_missing>>), EmptyList} :
          (MetaSearched /\ last.q.val = TagsOnly(g)) =>
              FoundExactly({p \in RegularPaths(last.folder) :
                  \A t \in StrSetOf(g) : t \in TagsOf(Doc(p.dir), p.name)})
    /\ (MetaSearched /\ last.q.val = TagsOnly(PyStr(T_urgent))) =>
          FoundExactly({p \in RegularPaths(last.folder) :
              T_urgent \in TagsOf(Doc(p.dir), p.name)})

\* C13 witness: a.txt is tagged urgent only and the query ["urgent",
\* "missing"] has reported nothing.
C13_Witness ==
    /\ MetaSearched
    /\ last.folder = "."
    /\ last.q.val = TagsOnly(StrList(<<T_urgent, T_missing>>))
    /\ TagsOf(Doc("."), F_a) = {T_urgent}
    /\ last.result.found = <<>>

\* A query with the ageDays field alone.
AgeOnly(n) == QueryOf(NoField, NoField, PyInt(n), NoField, NoField, NoField)

\* C14: with ageDays = N alone, search_meta reports exactly the files whose
\* modification time lies more than N days before the time of the run; a
\* file modified N days before to the second is not reported.
C14_AgeStrict ==
    \A n \in {6, 7} :
        (MetaSearched /\ last.q.val = AgeOnly(n)) =>
            /\ FoundExactly({p \in RegularPaths(last.folder) :
                  last.now - StatOf(stat, p.dir, p.name).mtime > n * SecondsPerDay})
            /\ \A p \in RegularPaths(last.folder) :
                  last.now - StatOf(stat, p.dir, p.name).mtime = n * SecondsPerDay
                    => p \notin SeqToSet(last.result.found)

\* C14 witness: a.txt was modified seven days before the run to the second
\* and ageDays = 7 has not reported it, while it has reported note.md.
C14_Witness ==
    /\ MetaSearched
    /\ last.folder = "."
    /\ last.q.val = AgeOnly(7)
    /\ last.now - StatOf(stat, ".", F_a).mtime = 7 * SecondsPerDay
    /\ last.result.found = <<FilePath(".", F_none)>>

\* C15: every file search_meta reports for a query with mood has a stored
\* mood whose value is the lowercased query value, every file it reports for
\* a query with mood_name has a stored mood whose name is the query value,
\* and a file without a stored mood is reported for no query with mood or
\* mood_name, whatever the value given.
C15_MoodPredicates ==
    (MetaSearched /\ last.result.status = "summary") =>
        \A p \in SeqToSet(last.result.found) :
            /\ DictHas(last.q.val, K_mood) =>
                  /\ HasStoredMood(p)
                  /\ FactsOf(p).mood = PyStr(StrLower(DictGet(last.q.val, K_mood).s))
            /\ DictHas(last.q.val, Q_mood_name) =>
                  /\ HasStoredMood(p)
                  /\ FactsOf(p).mood_name = DictGet(last.q.val, Q_mood_name)

\* The file records the last catalog holds for directory d of a walk from
\* folder, in the order of the listing.
CatalogKey(d, folder) ==
    IF RelPath(d, folder) = <<>> THEN E_root ELSE RelPath(d, folder)
CatalogFiles(d, folder) ==
    DictGet(DictGet(last.result.catalog, CatalogKey(d, folder)), E_files).items

\* C20: in the catalog of export_map every file record carries the stored
\* attributes of the file next to the five fields taken from the file system,
\* and name, size, type, last_modified and created are the live values of
\* the file whatever its stored record holds.
C20_LiveFieldsKept ==
    (last.op = "export_map" /\ last.result.status = "summary") =>
        \A d \in SeqToSet(WalkDirs(last.folder)) :
            /\ Len(CatalogFiles(d, last.folder)) = Len(stat[d])
            /\ \A i \in 1..Len(stat[d]) :
                  LET rec == CatalogFiles(d, last.folder)[i].val
                      file == stat[d][i]
                  IN  /\ DictGet(rec, E_name) = PyStr(file.name)
                      /\ DictGet(rec, Q_size) = PyInt(file.size)
                      /\ DictGet(rec, Q_type) = PyStr(FileType(file.name))
                      /\ DictGet(rec, E_last_modified) = PyStr(IsoFormat(file.mtime))
                      /\ DictGet(rec, E_created) = PyStr(IsoFormat(file.ctime))
                      /\ DictHas(Doc(d), file.name) =>
                            \A j \in 1..Len(DictGet(Doc(d), file.name).items) :
                                DictHas(rec, DictGet(Doc(d), file.name).items[j].key)

\* ------------------------------------------------------------ the file tree
\* A tree as the file commands see it: the regular files of each directory
\* with their stat fields and content, and the sidecar file of each directory.
Tree(st, dsk) == [st |-> st, dsk |-> dsk]

\* os.stat and the content of a sidecar file holding text.
SidecarStat(text) == FileStat(METADATA_FILE, Len(text), T_a, T_a, text)

\* The files os.walk / os.listdir gives for directory d, the sidecar file
\* among them once it exists.
Entries(t, d) ==
    t.st[d] \o (IF t.dsk[d].exists THEN <<SidecarStat(t.dsk[d].text)>> ELSE <<>>)

\* os.path.exists(os.path.join(d, name))
Exists(t, d, name) ==
    \E i \in 1..Len(Entries(t, d)) : Entries(t, d)[i].name = name

\* os.remove(os.path.join(d, name))
Remove(t, d, name) ==
    IF name = METADATA_FILE
    THEN [t EXCEPT !.dsk = DirPut(t.dsk, d, Absent)]
    ELSE [t EXCEPT !.st = DirPut(t.st, d, SelectSeq(t.st[d], LAMBDA f : f.name # name))]

\* A file put into directory d, as os.rename, shutil.move and shutil.copy2
\* leave it.
Place(t, d, file) ==
    IF file.name = METADATA_FILE
    THEN [t EXCEPT !.dsk = DirPut(t.dsk, d, FileOf(file.data))]
    ELSE [t EXCEPT !.st = DirPut(t.st, d, Append(t.st[d], file))]

\* The paths whose open() and whose os.remove / os.rename / copy fail during
\* one command.
NoFault == [read |-> {}, write |-> {}]

\* -------------------------------------------------------------- deduplicate
\* get_file_hash(filepath): the digest of the content, None on IOError.  The
\* content stands for its SHA-256 digest.
GetFileHash(file, path, flt) ==
    IF path \in flt.read THEN [ok |-> FALSE, digest |-> <<>>]
    ELSE [ok |-> TRUE, digest |-> file.data]

\* The account of a deduplicate run: the tree, the hashes dict (digest and
\* first path, in insertion order), the paths hashed, the duplicates
\* reported with their originals, the paths deleted, the failed removals.
Deduped(t) ==
    [status |-> "summary", tree |-> t, hashes |-> <<>>, hashed |-> <<>>,
     reports |-> <<>>, deleted |-> <<>>, failed |-> <<>>]

\* A variant of the removal that says nothing when os.remove fails.
DedupRemoveSilent(acc, path, flt) ==
    IF path \in flt.write THEN acc
    ELSE [acc EXCEPT !.tree = Remove(acc.tree, path.dir, path.name),
                     !.deleted = Append(acc.deleted, path)]

\* try: os.remove(filepath); deleted_count += 1 / except OSError: print
DedupRemove(acc, path, flt) ==
    IF path \in flt.write THEN [acc EXCEPT !.failed = Append(acc.failed, path)]
    ELSE [acc EXCEPT !.tree = Remove(acc.tree, path.dir, path.name),
                     !.deleted = Append(acc.deleted, path)]

\* if file_hash in hashes: report, and remove unless dry_run
DedupReport(acc, path, original, dry_run, flt) ==
    IF dry_run
    THEN [acc EXCEPT !.reports = Append(acc.reports, [path |-> path, original |-> original])]
    ELSE DedupRemove([acc EXCEPT !.reports = Append(acc.reports,
                                                    [path |-> path, original |-> original])],
                     path, flt)

\* A variant of the loop body that makes each duplicate the original of the
\* next one.
DedupEntryLatest(acc, path, h, dry_run, flt) ==
    IF ~h.ok THEN acc
    ELSE IF \E i \in 1..Len(acc.hashes) : acc.hashes[i].digest = h.digest
    THEN LET i == CHOOSE i \in 1..Len(acc.hashes) : acc.hashes[i].digest = h.digest
         IN  DedupReport([acc EXCEPT !.hashed = Append(acc.hashed, path),
                                     !.hashes = [acc.hashes EXCEPT ![i].path = path]],
                         path, acc.hashes[i].path, dry_run, flt)
    ELSE [acc EXCEPT !.hashed = Append(acc.hashed, path),
                     !.hashes = Append(acc.hashes, [digest |-> h.digest, path |-> path])]

\* The body of `for filename in files` of deduplicate, h the file's hash.
DedupEntry(acc, path, h, dry_run, flt) ==
    IF ~h.ok THEN acc
    ELSE IF \E i \in 1..Len(acc.hashes) : acc.hashes[i].digest = h.digest
    THEN DedupReport([acc EXCEPT !.hashed = Append(acc.hashed, path)], path,
                     acc.hashes[CHOOSE i \in 1..Len(acc.hashes) :
                                    acc.hashes[i].digest = h.digest].path,
                     dry_run, flt)
    ELSE [acc EXCEPT !.hashed = Append(acc.hashed, path),
                     !.hashes = Append(acc.hashes, [digest |-> h.digest, path |-> path])]

RECURSIVE DedupFiles(_, _, _, _, _)
DedupFiles(acc, root, files, dry_run, flt) ==
    IF files = <<>> THEN acc
    ELSE DedupFiles(DedupEntry(acc, FilePath(root, Head(files).name),
                               GetFileHash(Head(files), FilePath(root, Head(files).name), flt),
                               dry_run, flt),
                    root, Tail(files), dry_run, flt)

RECURSIVE DedupDirs(_, _, _, _)
DedupDirs(acc, roots, dry_run, flt) ==
    IF roots = <<>> THEN acc
    ELSE DedupDirs(DedupFiles(acc, Head(roots), Entries(acc.tree, Head(roots)), dry_run, flt),
                   Tail(roots), dry_run, flt)

\* deduplicate(folder, dry_run)
DeduplicateResult(folder, dry_run, flt, t) ==
    IF ~IsDir(DirPath(folder)) THEN [Deduped(t) EXCEPT !.status = "notfound"]
    ELSE DedupDirs(Deduped(t), WalkDirs(folder), dry_run, flt)

\* ------------------------------------------------------------- auto_cleanup
\* "ageDays", "emptyFile", "sizeGT", "sizeLT", and their lowercase forms
W_ageDays == <<97,103,101,68,97,121,115>>
W_emptyFile == <<101,109,112,116,121,70,105,108,101>>
W_sizeGT == <<115,105,122,101,71,84>>
W_sizeLT == <<115,105,122,101,76,84>>
W_agedays == <<97,103,101,100,97,121,115>>
W_emptyfile == <<101,109,112,116,121,102,105,108,101>>
W_sizegt == <<115,105,122,101,103,116>>
W_sizelt == <<115,105,122,101,108,116>>

\* The account of a command that changes files: how it ended ("summary",
\* "returned" after a ValueError, "raised" when an exception left it), the
\* tree, the paths done, skipped and failed.
Changed(t) ==
    [status |-> "summary", exc |-> "none", tree |-> t,
     done |-> <<>>, skipped |-> <<>>, failed |-> <<>>]

\* What int(value) leaves of the run: ValueError is caught and returns, any
\* other exception leaves the command.
Stopped(acc, exc) ==
    IF exc = "ValueError" THEN [acc EXCEPT !.status = "returned"]
    ELSE [acc EXCEPT !.status = "raised", !.exc = exc]

\* if perform_delete: os.remove(filepath), OSError caught and printed
CleanRemove(acc, path, flt) ==
    IF path \in flt.write THEN [acc EXCEPT !.failed = Append(acc.failed, path)]
    ELSE [acc EXCEPT !.tree = Remove(acc.tree, path.dir, path.name),
                     !.done = Append(acc.done, path)]

\* The body of `for filename in files` of auto_cleanup.
CleanEntry(acc, root, file, criteria, value, now, flt) ==
    IF StrLower(criteria) = W_agedays
    THEN IF IntOf(value).exc # "none" THEN Stopped(acc, IntOf(value).exc)
         ELSE IF IsFileOlderThan(file.mtime, IntOf(value).val, now)
         THEN CleanRemove(acc, FilePath(root, file.name), flt)
         ELSE acc
    ELSE IF StrLower(criteria) = W_emptyfile
    THEN IF file.size = 0 THEN CleanRemove(acc, FilePath(root, file.name), flt) ELSE acc
    ELSE acc

RECURSIVE CleanFiles(_, _, _, _, _, _, _)
CleanFiles(acc, root, files, criteria, value, now, flt) ==
    IF files = <<>> \/ acc.status # "summary" THEN acc
    ELSE IF Head(files).name = METADATA_FILE
    THEN CleanFiles(acc, root, Tail(files), criteria, value, now, flt)
    ELSE CleanFiles(CleanEntry(acc, root, Head(files), criteria, value, now, flt),
                    root, Tail(files), criteria, value, now, flt)

RECURSIVE CleanDirs(_, _, _, _, _, _)
CleanDirs(acc, roots, criteria, value, now, flt) ==
    IF roots = <<>> \/ acc.status # "summary" THEN acc
    ELSE CleanDirs(CleanFiles(acc, Head(roots), Entries(acc.tree, Head(roots)),
                              criteria, value, now, flt),
                   Tail(roots), criteria, value, now, flt)

\* auto_cleanup(folder, criteria, value)
AutoCleanupResult(folder, criteria, value, now, flt, t) ==
    IF ~IsDir(DirPath(folder)) THEN [Changed(t) EXCEPT !.status = "notfound"]
    ELSE CleanDirs(Changed(t), WalkDirs(folder), criteria, value, now, flt)

\* ------------------------------------------------------------- batch_rename
\* re.sub(regex_pattern, replacement, filename) for a pattern of literal
\* characters: every occurrence from the left, none overlapping, replaced.
RECURSIVE ReSub(_, _, _)
ReSub(pattern, replacement, name) ==
    IF Len(name) < Len(pattern) THEN name
    ELSE IF SubSeq(name, 1, Len(pattern)) = pattern
    THEN replacement \o ReSub(pattern, replacement, SubSeq(name, Len(pattern) + 1, Len(name)))
    ELSE <<Head(name)>> \o ReSub(pattern, replacement, Tail(name))

\* The body of `for filename in files` of batch_rename.
RenameEntry(acc, root, file, new_filename, flt) ==
    IF new_filename = file.name THEN acc
    ELSE IF Exists(acc.tree, root, new_filename)
    THEN [acc EXCEPT !.skipped = Append(acc.skipped, FilePath(root, file.name))]
    ELSE IF FilePath(root, file.name) \in flt.write
    THEN [acc EXCEPT !.failed = Append(acc.failed, FilePath(root, file.name))]
    ELSE [acc EXCEPT !.tree = Place(Remove(acc.tree, root, file.name), root,
                                    [file EXCEPT !.name = new_filename]),
                     !.done = Append(acc.done, FilePath(root, file.name))]

RECURSIVE RenameFiles(_, _, _, _, _, _)
RenameFiles(acc, root, files, pattern, replacement, flt) ==
    IF files = <<>> THEN acc
    ELSE RenameFiles(RenameEntry(acc, root, Head(files),
                                 ReSub(pattern, replacement, Head(files).name), flt),
                     root, Tail(files), pattern, replacement, flt)

RECURSIVE RenameDirs(_, _, _, _, _, _, _)
RenameDirs(acc, roots, folder, pattern, replacement, recursive, flt) ==
    IF roots = <<>> THEN acc
    ELSE IF ~recursive /\ Head(roots) # folder
    THEN RenameDirs(acc, Tail(roots), folder, pattern, replacement, recursive, flt)
    ELSE RenameDirs(RenameFiles(acc, Head(roots), Entries(acc.tree, Head(roots)),
                                pattern, replacement, flt),
                    Tail(roots), folder, pattern, replacement, recursive, flt)

\* batch_rename(folder, regex_pattern, replacement, recursive)
BatchRenameResult(folder, pattern, replacement, recursive, flt, t) ==
    IF ~IsDir(DirPath(folder)) THEN [Changed(t) EXCEPT !.status = "notfound"]
    ELSE RenameDirs(Changed(t), WalkDirs(folder), folder, pattern, replacement, recursive, flt)

\* ---------------------------------------------------- conditional_move_copy
\* perform_action for one file, as Value / Raise.
MoveCondition(file, condition_type, value, now) ==
    IF StrLower(condition_type) \notin {W_agedays, W_sizegt, W_sizelt} THEN Value(FALSE)
    ELSE IF IntOf(value).exc # "none" THEN Raise(IntOf(value).exc)
    ELSE IF StrLower(condition_type) = W_agedays
    THEN Value(IsFileOlderThan(file.mtime, IntOf(value).val, now))
    ELSE IF StrLower(condition_type) = W_sizegt THEN Value(file.size > IntOf(value).val)
    ELSE IF StrLower(condition_type) = W_sizelt THEN Value(file.size < IntOf(value).val)
    ELSE Value(FALSE)

\* if perform_action: skip an existing target, else shutil.copy2 / shutil.move
MoveEntry(acc, src, dest, file, is_copy, now, flt) ==
    IF Exists(acc.tree, dest, file.name)
    THEN [acc EXCEPT !.skipped = Append(acc.skipped, FilePath(src, file.name))]
    ELSE IF FilePath(src, file.name) \in flt.write
    THEN [acc EXCEPT !.failed = Append(acc.failed, FilePath(src, file.name))]
    ELSE IF is_copy
    THEN [acc EXCEPT !.tree = Place(acc.tree, dest, [file EXCEPT !.ctime = now]),
                     !.done = Append(acc.done, FilePath(src, file.name))]
    ELSE [acc EXCEPT !.tree = Place(Remove(acc.tree, src, file.name), dest, file),
                     !.done = Append(acc.done, FilePath(src, file.name))]

RECURSIVE MoveFiles(_, _, _, _, _, _, _, _, _)
MoveFiles(acc, src, dest, files, condition_type, value, is_copy, now, flt) ==
    IF files = <<>> \/ acc.status # "summary" THEN acc
    ELSE MoveFiles(
            IF MoveCondition(Head(files), condition_type, value, now).exc # "none"
            THEN Stopped(acc, MoveCondition(Head(files), condition_type, value, now).exc)
            ELSE IF MoveCondition(Head(files), condition_type, value, now).val
            THEN MoveEntry(acc, src, dest, Head(files), is_copy, now, flt)
            ELSE acc,
            src, dest, Tail(files), condition_type, value, is_copy, now, flt)

\* conditional_move_copy(src, dest, condition_type, value, is_copy), dest an
\* existing directory.
ConditionalMoveCopyResult(src, dest, condition_type, value, is_copy, now, flt, t) ==
    IF ~IsDir(DirPath(src)) THEN [Changed(t) EXCEPT !.status = "notfound"]
    ELSE MoveFiles(Changed(t), src, dest, Entries(t, src), condition_type, value,
                   is_copy, now, flt)

\* ------------------------------------------------ the file commands at work
\* deduplicate, auto_cleanup, batch_rename and conditional_move_copy on a
\* tree with three files of one content (a.txt and c.txt in ".", b.txt in
\* "./s"), an empty note.md, and sidecar files written by earlier commands.
\* "c.txt", "txt", "bak", "json", "b"
F_c == <<99,46,116,120,116>>
P_txt == <<116,120,116>>
P_bak == <<98,97,107>>
P_json == <<106,115,111,110>>
P_b == <<98>>

FilesTree ==
    DirMap(<<FileStat(F_a, 5, T_a, T_a, D_hello),
             FileStat(F_c, 5, T_a, T_a, D_hello),
             FileStat(F_none, 0, T_old, T_old, <<>>)>>,
           <<FileStat(F_b, 5, T_a + SecondsPerDay, T_a + SecondsPerDay, D_hello)>>)

\* The document folder_mood_set(d, "happy", "Trip") writes in a fresh directory.
MoodOnly ==
    FileOf(Dump(PyDict(<<Item(FOLDER_KEY,
                              PyDict(<<Item(K_mood, MoodRecord(S_happy, PyStr(S_Trip)))>>))>>)))

FilesStores ==
    {DirMap(Absent, Absent),
     DirMap(MoodOnly, MoodOnly),
     DirMap(FileOf(Dump(TaggedRoot)), Absent)}

\* The time of the runs.
FilesNow == T_a + 7 * SecondsPerDay + 1

\* The command lines.
DedupCall(folder, dry_run, flt) == [folder |-> folder, dry_run |-> dry_run, flt |-> flt]
DedupCalls ==
    {DedupCall(".", TRUE, NoFault),
     DedupCall(".", FALSE, NoFault),
     DedupCall("./s", FALSE, NoFault),
     DedupCall(".", FALSE, [read |-> {}, write |-> {FilePath(".", F_c)}]),
     DedupCall(".", FALSE, [read |-> {FilePath(".", F_a)}, write |-> {}])}
CleanCall(folder, criteria, value, flt) ==
    [folder |-> folder, criteria |-> criteria, value |-> value, flt |-> flt]
CleanCalls ==
    {CleanCall(".", W_ageDays, PyInt(6), NoFault),
     CleanCall(".", W_emptyFile, PyNone, NoFault),
     CleanCall("./s", W_ageDays, PyInt(0), NoFault),
     CleanCall(".", W_emptyFile, PyNone, [read |-> {}, write |-> {FilePath(".", F_none)}])}
RenameCall(folder, pattern, replacement, recursive) ==
    [folder |-> folder, pattern |-> pattern, replacement |-> replacement,
     recursive |-> recursive, flt |-> NoFault]
RenameCalls ==
    {RenameCall(".", P_txt, P_bak, TRUE),
     RenameCall(".", P_json, P_bak, FALSE),
     RenameCall(".", P_b, <<97>>, TRUE)}
MoveCall(src, dest, condition_type, value, is_copy) ==
    [src |-> src, dest |-> dest, condition_type |-> condition_type, value |-> value,
     is_copy |-> is_copy, flt |-> NoFault]
MoveCalls ==
    {MoveCall(".", "./s", W_sizeGT, PyInt(0), FALSE),
     MoveCall("./s", ".", W_ageDays, PyInt(0), TRUE),
     MoveCall(".", "./s", W_sizeLT, PyInt(1), FALSE)}

\* The record of a file command: the call, the tree before it, its account.
Ran(op, call, pre, result) == [op |-> op, call |-> call, pre |-> pre, result |-> result]
FileOps == {"deduplicate", "auto_cleanup", "batch_rename", "conditional_move_copy"}

InitFiles ==
    /\ stat = FilesTree
    /\ json_file = Absent
    /\ fs = DirMap(NamesOf(FilesTree["."]), NamesOf(FilesTree["./s"]))
    /\ disk \in FilesStores
    /\ last = Ran("init", NoFault, Tree(stat, disk), Changed(Tree(stat, disk)))
    /\ nops = 0
    /\ nfaults = 0
    /\ tagOnly = FALSE

\* One file command with its faults, leaving the tree of its account.
FileCommand(op, call, result) ==
    /\ nops < MaxOps
    /\ nfaults + Cardinality(call.flt.read \cup call.flt.write) <= MaxFaults
    /\ nops' = nops + 1
    /\ nfaults' = nfaults + Cardinality(call.flt.read \cup call.flt.write)
    /\ stat' = result.tree.st
    /\ fs' = DirMap(NamesOf(result.tree.st["."]), NamesOf(result.tree.st["./s"]))
    /\ disk' = result.tree.dsk
    /\ last' = Ran(op, call, Tree(stat, disk), result)
    /\ UNCHANGED <<tagOnly, json_file>>

Deduplicate(c) ==
    FileCommand("deduplicate", c,
                DeduplicateResult(c.folder, c.dry_run, c.flt, Tree(stat, disk)))
AutoCleanup(c) ==
    FileCommand("auto_cleanup", c,
                AutoCleanupResult(c.folder, c.criteria, c.value, FilesNow, c.flt,
                                  Tree(stat, disk)))
BatchRename(c) ==
    FileCommand("batch_rename", c,
                BatchRenameResult(c.folder, c.pattern, c.replacement, c.recursive, c.flt,
                                  Tree(stat, disk)))
ConditionalMoveCopy(c) ==
    FileCommand("conditional_move_copy", c,
                ConditionalMoveCopyResult(c.src, c.dest, c.condition_type, c.value,
                                          c.is_copy, FilesNow, c.flt, Tree(stat, disk)))

NextFiles ==
    \/ \E c \in DedupCalls : Deduplicate(c)
    \/ \E c \in CleanCalls : AutoCleanup(c)
    \/ \E c \in RenameCalls : BatchRename(c)
    \/ \E c \in MoveCalls : ConditionalMoveCopy(c)

SpecFiles == InitFiles /\ [][NextFiles]_vars

\* The files a walk over roots meets in tree t, in traversal order, each with
\* its path and content.
RECURSIVE Traversal(_, _)
Traversal(t, roots) ==
    IF roots = <<>> THEN <<>>
    ELSE [i \in 1..Len(Entries(t, Head(roots))) |->
             [path |-> FilePath(Head(roots), Entries(t, Head(roots))[i].name),
              data |-> Entries(t, Head(roots))[i].data]]
         \o Traversal(t, Tail(roots))

\* The traversal of the last deduplicate run over the tree it started from,
\* the first file with the content of the i-th one, and the later ones.
Trav == Traversal(last.pre, WalkDirs(last.call.folder))
FirstOf(i) ==
    CHOOSE j \in 1..i :
        /\ Trav[j].data = Trav[i].data
        /\ \A k \in 1..(j - 1) : Trav[k].data # Trav[i].data
Later == {i \in 1..Len(Trav) : FirstOf(i) # i}
Here == Tree(stat, disk)

\* C16: in a deduplicate run without faults every file that is not the first
\* of its content in traversal order is reported once as a duplicate of that
\* first file, the first files stay, delete mode removes exactly the later
\* files, and dry-run mode reports the same and leaves the tree as it was.
C16_FirstSeenKept ==
    (last.op = "deduplicate" /\ last.call.flt = NoFault) =>
        /\ SeqToSet(last.result.reports) =
              {[path |-> Trav[i].path, original |-> Trav[FirstOf(i)].path] : i \in Later}
        /\ Len(last.result.reports) = Cardinality(Later)
        /\ \A i \in 1..Len(Trav) \ Later : Exists(Here, Trav[i].path.dir, Trav[i].path.name)
        /\ IF last.call.dry_run
           THEN Here = last.pre /\ last.result.deleted = <<>>
           ELSE /\ SeqToSet(last.result.deleted) = {Trav[i].path : i \in Later}
                /\ Traversal(Here, <<".", "./s">>) =
                      SelectSeq(Traversal(last.pre, <<".", "./s">>),
                                LAMBDA e : e.path \notin {Trav[i].path : i \in Later})

\* C16 witness: a.txt, c.txt and s/b.txt hold one content; delete mode from
\* "." has removed c.txt and s/b.txt as duplicates of a.txt, which stays.
C16_Witness ==
    /\ last.op = "deduplicate"
    /\ last.call = DedupCall(".", FALSE, NoFault)
    /\ last.pre = Tree(FilesTree, DirMap(Absent, Absent))
    /\ last.result.reports =
          <<[path |-> FilePath(".", F_c), original |-> FilePath(".", F_a)],
            [path |-> FilePath("./s", F_b), original |-> FilePath(".", F_a)]>>
    /\ last.result.deleted = <<FilePath(".", F_c), FilePath("./s", F_b)>>
    /\ Exists(Here, ".", F_a)

\* C17: in delete mode a duplicate whose removal fails is reported as failed
\* and stays, the scan goes on: every file of the traversal is hashed, every
\* other later file is reported and removed, and the summary is reached.
C17_RemovalFailureGoesOn ==
    (/\ last.op = "deduplicate"
     /\ ~last.call.dry_run
     /\ last.call.flt.read = {}
     /\ \E i \in Later : Trav[i].path \in last.call.flt.write) =>
        /\ last.result.status = "summary"
        /\ last.result.hashed = [i \in 1..Len(Trav) |-> Trav[i].path]
        /\ \A i \in Later :
              /\ [path |-> Trav[i].path, original |-> Trav[FirstOf(i)].path]
                    \in SeqToSet(last.result.reports)
              /\ IF Trav[i].path \in last.call.flt.write
                 THEN /\ Trav[i].path \in SeqToSet(last.result.failed)
                      /\ Exists(Here, Trav[i].path.dir, Trav[i].path.name)
                 ELSE /\ Trav[i].path \in SeqToSet(last.result.deleted)
                      /\ ~Exists(Here, Trav[i].path.dir, Trav[i].path.name)

\* C17 witness: the removal of c.txt has failed and s/b.txt, later in the
\* traversal, has been removed all the same.
C17_Witness ==
    /\ last.op = "deduplicate"
    /\ last.call = DedupCall(".", FALSE, [read |-> {}, write |-> {FilePath(".", F_c)}])
    /\ last.pre.st = FilesTree
    /\ last.result.failed = <<FilePath(".", F_c)>>
    /\ FilePath("./s", F_b) \in SeqToSet(last.result.deleted)
    /\ last.result.status = "summary"

\* C18: a file command leaves every sidecar file that existed before it in
\* its directory under its reserved name.
C18_SidecarNeverDeleted ==
    last.op \in FileOps =>
        \A d \in Dirs : last.pre.dsk[d].exists => disk[d].exists

\* C19: deduplicate never takes the sidecar file for a regular file: it is
\* neither hashed, nor recorded as a first-seen file, nor reported as a
\* duplicate or as the original of one.
C19_SidecarNotAFile ==
    last.op = "deduplicate" =>
        /\ \A i \in 1..Len(last.result.hashed) : last.result.hashed[i].name # METADATA_FILE
        /\ \A i \in 1..Len(last.result.hashes) : last.result.hashes[i].path.name # METADATA_FILE
        /\ \A i \in 1..Len(last.result.reports) :
              /\ last.result.reports[i].path.name # METADATA_FILE
              /\ last.result.reports[i].original.name # METADATA_FILE

\* C21: when the final write of export_map does not complete, the file at
\* the output path is what it was before the run: its whole prior content,
\* or no file.
C21_NoPartialCatalog ==
    (last.op = "export_map" /\ last.result.status = "summary" /\ ~last.result.written) =>
        json_file = last.result.before

\* The loads and the file passes of the last walk, by their place in it.
Ev == last.result.events
LoadsOf(d) == {i \in 1..Len(Ev) : Ev[i].kind = "load" /\ Ev[i].dir = d}
PassesOf(d) == {i \in 1..Len(Ev) : Ev[i].kind = "file" /\ Ev[i].dir = d}

\* C23: in a walk of search_tag, search_meta or export_map that reaches its
\* end, the document of every directory of the walk is loaded exactly once
\* and of no other directory; every file of the directory is examined after
\* that load and with the document it returned; and the load of a parent
\* precedes everything done in its child.
C23_OneLoadPerDirectory ==
    (last.op \in {"search_tag", "search_meta", "export_map"}
       /\ last.result.status = "summary") =>
        \A d \in Dirs :
            IF d \in SeqToSet(WalkDirs(last.folder))
            THEN /\ Cardinality(LoadsOf(d)) = 1
                 /\ {Ev[i].name : i \in PassesOf(d)} = SeqToSet(fs[d])
                 /\ \A i \in PassesOf(d) : \A j \in LoadsOf(d) :
                       j < i /\ Ev[i].doc = Ev[j].doc /\ Ev[j].doc = Doc(d)
                 /\ \A c \in SeqToSet(SubDirs(d)) :
                       \A i \in LoadsOf(d), j \in LoadsOf(c) \cup PassesOf(c) : i < j
            ELSE LoadsOf(d) = {} /\ PassesOf(d) = {}

\* C23 witness: a search_meta walk from "." over the tagged stores has
\* loaded "." once, examined a.txt and note.md, then loaded "./s" once and
\* examined b.txt.
C23_Witness ==
    /\ last.op = "search_meta"
    /\ last.folder = "."
    /\ last.result.status = "summary"
    /\ disk = DirMap(FileOf(Dump(TaggedRoot)), FileOf(Dump(TaggedSub)))
    /\ Len(Ev) = 5
    /\ Ev[1] = [kind |-> "load", dir |-> ".", name |-> <<>>, doc |-> TaggedRoot]
    /\ Ev[3].kind = "file" /\ Ev[3].doc = TaggedRoot
    /\ Ev[4] = [kind |-> "load", dir |-> "./s", name |-> <<>>, doc |-> TaggedSub]
    /\ Ev[5] = [kind |-> "file", dir |-> "./s", name |-> F_b, doc |-> TaggedSub]

\* The tag set tag_file computes for a processed path from the document the
\* call found.
UpdatedTags(p) ==
    (TagsOf(PreDoc(Resolve(p.dir)), p.name) \cup ParseTags(last.cmd.add))
        \ ParseTags(last.cmd.rem)

\* C24: when a tag_file call meets no permission or disk fault, every
\* processed file whose tag set changed has the sidecar of its owning
\* directory on disk afterwards, and a load of it returns the updated tags,
\* however the path was written.
C24_ChangedTagsPersisted ==
    FaultFree("tag") =>
        \A p \in Processed :
            UpdatedTags(p) # TagsOf(PreDoc(Resolve(p.dir)), p.name) =>
                /\ disk[Resolve(p.dir)].exists
                /\ TagsOf(Doc(Resolve(p.dir)), p.name) = UpdatedTags(p)

\* --------------------------------------------------------- folder_mood_get
\* "N/A", "x", "calm", "Sad", "TRI", "a"
S_NA == <<78,47,65>>
S_x == <<120>>
S_calm == <<99,97,108,109>>
S_Sad == <<83,97,100>>
S_TRI == <<84,82,73>>
S_a == <<97>>

\* bool(v)
Truthy(v) ==
    CASE v.k = "none" -> FALSE
      [] v.k = "str" -> v.s # <<>>
      [] v.k = "int" -> v.s[1] # 0
      [] OTHER -> v.items # <<>>

\* obj.get(key, "N/A"): AttributeError unless obj is a dict.
GetOrNA(obj, key) ==
    IF obj.k = "dict" THEN Value(DictGetOr(obj, key, PyStr(S_NA)))
    ELSE Raise("AttributeError")

\* if "__folder__" in metadata and "mood" in metadata["__folder__"]:
\*     mood_info = metadata["__folder__"]["mood"]
NoMoodInfo(exc) == [exc |-> exc, present |-> FALSE, val |-> PyNone]
MoodInfoIn(entry) ==
    IF In(K_mood, entry).exc # "none" THEN NoMoodInfo(In(K_mood, entry).exc)
    ELSE IF ~In(K_mood, entry).val THEN NoMoodInfo("none")
    ELSE IF Subscript(entry, K_mood).exc # "none"
    THEN NoMoodInfo(Subscript(entry, K_mood).exc)
    ELSE [exc |-> "none", present |-> TRUE, val |-> Subscript(entry, K_mood).val]
MoodInfo(metadata) ==
    IF In(FOLDER_KEY, metadata).exc # "none" THEN NoMoodInfo(In(FOLDER_KEY, metadata).exc)
    ELSE IF ~In(FOLDER_KEY, metadata).val THEN NoMoodInfo("none")
    ELSE IF Subscript(metadata, FOLDER_KEY).exc # "none"
    THEN NoMoodInfo(Subscript(metadata, FOLDER_KEY).exc)
    ELSE MoodInfoIn(Subscript(metadata, FOLDER_KEY).val)

\* (v and filter_lower in v.lower())
FilterIn(filter_lower, v) ==
    IF ~Truthy(v) THEN Value(FALSE)
    ELSE IF LowerOf(v).exc # "none" THEN Raise(LowerOf(v).exc)
    ELSE Value(IsSubstring(filter_lower, LowerOf(v).val.s))

\* filter_lower is None or (mood_value and ...) or (mood_name and ...),
\* after the two mood_info.get calls.
MoodMatches(mood_info, mood_filter_name) ==
    IF GetOrNA(mood_info, K_value).exc # "none" THEN Raise(GetOrNA(mood_info, K_value).exc)
    ELSE IF ~Truthy(mood_filter_name) THEN Value(TRUE)
    ELSE IF FilterIn(StrLower(mood_filter_name.s), GetOrNA(mood_info, K_value).val).exc # "none"
    THEN Raise(FilterIn(StrLower(mood_filter_name.s), GetOrNA(mood_info, K_value).val).exc)
    ELSE IF FilterIn(StrLower(mood_filter_name.s), GetOrNA(mood_info, K_value).val).val
    THEN Value(TRUE)
    ELSE FilterIn(StrLower(mood_filter_name.s), GetOrNA(mood_info, K_name).val)

\* The account of one folder_mood_get: how it ended, the exception that left
\* it, the "<folder> - <mood>" lines printed, the loads per directory.
MoodSeen ==
    [status |-> "scan", exc |-> "none", reported |-> <<>>, loads |-> DirMap(0, 0)]
MoodLine(acc, root, mood_value) ==
    [acc EXCEPT !.reported = Append(acc.reported, [dir |-> root, value |-> mood_value])]

\* The single folder check: no try around it.
MoodSingle(acc, folder, info) ==
    IF info.exc # "none" THEN [acc EXCEPT !.status = "raised", !.exc = info.exc]
    ELSE IF ~info.present THEN [acc EXCEPT !.status = "single"]
    ELSE IF GetOrNA(info.val, K_value).exc # "none"
    THEN [acc EXCEPT !.status = "raised", !.exc = GetOrNA(info.val, K_value).exc]
    ELSE MoodLine([acc EXCEPT !.status = "single"], folder, GetOrNA(info.val, K_value).val)

\* The body of the scan for one root: try ... except Exception: pass.
MoodScanOne(acc, root, info, mood_filter_name) ==
    IF info.exc # "none" \/ ~info.present THEN acc
    ELSE IF MoodMatches(info.val, mood_filter_name).exc # "none" THEN acc
    ELSE IF MoodMatches(info.val, mood_filter_name).val
    THEN MoodLine(acc, root, GetOrNA(info.val, K_value).val)
    ELSE acc

\* for root, dirs, files in os.walk(folder)
RECURSIVE MoodScan(_, _, _, _)
MoodScan(acc, roots, mood_filter_name, dsk) ==
    IF roots = <<>> THEN acc
    ELSE MoodScan(MoodScanOne([acc EXCEPT !.loads = Bump(acc.loads, Head(roots))],
                              Head(roots),
                              MoodInfo(LoadMetadata(dsk[Head(roots)], "ok").val),
                              mood_filter_name),
                  Tail(roots), mood_filter_name, dsk)

\* folder_mood_get(folder, recursive, mood_filter_name)
FolderMoodGetResult(folder, recursive, mood_filter_name, dsk) ==
    IF ~IsDir(DirPath(folder)) THEN [MoodSeen EXCEPT !.status = "notfound"]
    ELSE IF ~recursive /\ mood_filter_name = PyNone
    THEN MoodSingle([MoodSeen EXCEPT !.loads = Bump(MoodSeen.loads, folder)], folder,
                    MoodInfo(LoadMetadata(dsk[folder], "ok").val))
    ELSE MoodScan(MoodSeen, WalkDirs(folder), mood_filter_name, dsk)

\* -------------------------------------------------------------------- main
\* The exit status of the process: main() returns after the command's
\* function returns; an exception that leaves the function ends the process
\* with a traceback.
ExitStatus(exc) == IF exc = "none" THEN 0 ELSE 1

\* The files of the machine: the tree, the sidecar files, the catalog file.
Files(st, dsk, file) == [st |-> st, dsk |-> dsk, json_file |-> file]

\* The record of one command line run through main.
MainRan(op, folder, recursive, mood_filter_name, status, exc, reported, loads, pre) ==
    [op |-> op, folder |-> folder, recursive |-> recursive,
     mood_filter_name |-> mood_filter_name, status |-> status, exc |-> exc,
     exit |-> ExitStatus(exc), reported |-> reported, loads |-> loads, pre |-> pre]

\* The folders given on the command lines: "./x" does not exist.
MainFolders == Dirs \cup {"./x"}

MoodDoc(mood) == FileOf(Dump(PyDict(<<Item(FOLDER_KEY, PyDict(<<Item(K_mood, mood)>>))>>)))

\* The sidecar files at the start: none; moods written by folder_mood_set
\* with and without a name; tags only; a mood record edited by hand to a
\* string, and to a record without a name.
MainStores ==
    {DirMap(Absent, Absent),
     DirMap(Absent, MoodOnly),
     DirMap(MoodOnly, MoodOnly),
     DirMap(MoodDoc(MoodRecord(S_calm, PyNone)), MoodOnly),
     DirMap(FileOf(Dump(TaggedRoot)), Absent),
     DirMap(MoodDoc(PyStr(S_x)), MoodOnly),
     DirMap(MoodDoc(PyDict(<<Item(K_value, PyStr(S_Sad))>>)), Absent)}

MainQueries ==
    {[ok |-> TRUE, val |-> EmptyDict],
     [ok |-> TRUE, val |-> QueryOf(NoField, NoField, NoField, NoField, PyNone, NoField)],
     [ok |-> FALSE, val |-> PyNone]}

InitMain ==
    /\ stat = FilesTree
    /\ json_file = Absent
    /\ fs = DirMap(NamesOf(FilesTree["."]), NamesOf(FilesTree["./s"]))
    /\ disk \in MainStores
    /\ last = MainRan("init", ".", FALSE, PyNone, "none", "none", <<>>, DirMap(0, 0),
                      Files(stat, disk, json_file))
    /\ nops = 0
    /\ nfaults = 0
    /\ tagOnly = FALSE

\* elif args.command == "tag": tag_file(...)
MainTag(path, add, rem, recursive) ==
    /\ last.op = "init"
    /\ \E out \in TagFileOutcomes(path, add, rem, recursive, disk, fs, 0) :
          /\ disk' = out.disk
          /\ last' = MainRan("tag", path.dir, recursive, PyNone,
                             IF ~IsFile(path, disk, fs) /\ ~IsDir(path)
                             THEN "notfound" ELSE "summary",
                             "none", <<>>, out.loads, Files(stat, disk, json_file))
    /\ UNCHANGED <<fs, nops, nfaults, tagOnly, stat, json_file>>

\* elif args.command == "search-tag": search_tag(args.folder, args.tag)
MainSearchTag(folder, tag) ==
    /\ last.op = "init"
    /\ last' = MainRan("search_tag", folder, FALSE, PyNone,
                       SearchTagResult(folder, tag, disk, fs).status,
                       SearchTagResult(folder, tag, disk, fs).exc, <<>>,
                       SearchTagResult(folder, tag, disk, fs).loads,
                       Files(stat, disk, json_file))
    /\ UNCHANGED <<fs, disk, nops, nfaults, tagOnly, stat, json_file>>

\* elif args.command == "search-meta": search_meta(args.folder, args.json_query)
MainSearchMeta(folder, q) ==
    /\ last.op = "init"
    /\ last' = MainRan("search_meta", folder, FALSE, PyNone,
                       SearchMetaResult(folder, q, FilesNow, stat, disk, fs).status,
                       SearchMetaResult(folder, q, FilesNow, stat, disk, fs).exc, <<>>,
                       SearchMetaResult(folder, q, FilesNow, stat, disk, fs).loads,
                       Files(stat, disk, json_file))
    /\ UNCHANGED <<fs, disk, nops, nfaults, tagOnly, stat, json_file>>

\* elif args.command == "deduplicate": deduplicate(args.folder, args.dryRun)
MainDeduplicate(folder, dry_run) ==
    /\ last.op = "init"
    /\ stat' = DeduplicateResult(folder, dry_run, NoFault, Tree(stat, disk)).tree.st
    /\ disk' = DeduplicateResult(folder, dry_run, NoFault, Tree(stat, disk)).tree.dsk
    /\ fs' = DirMap(NamesOf(stat'["."]), NamesOf(stat'["./s"]))
    /\ last' = MainRan("deduplicate", folder, FALSE, PyNone,
                       DeduplicateResult(folder, dry_run, NoFault, Tree(stat, disk)).status,
                       "none", <<>>, DirMap(0, 0), Files(stat, disk, json_file))
    /\ UNCHANGED <<nops, nfaults, tagOnly, json_file>>

\* elif args.command == "export-map": export_map(args.folder, args.json_file)
MainExportMap(folder) ==
    /\ last.op = "init"
    /\ json_file' = ExportMapRun(folder, WriteOk, stat, disk, fs, json_file).file
    /\ last' = MainRan("export_map", folder, FALSE, PyNone,
                       ExportMapRun(folder, WriteOk, stat, disk, fs, json_file).account.status,
                       "none", <<>>, DirMap(0, 0), Files(stat, disk, json_file))
    /\ UNCHANGED <<fs, disk, nops, nfaults, tagOnly, stat>>

\* if args.mood_action == "set": folder_mood_set(args.folder, args.mood, args.name)
MainFolderMoodSet(folder, mood, name) ==
    /\ last.op = "init"
    /\ \E out \in FolderMoodSetOutcomes(folder, mood, name, disk, 0) :
          /\ disk' = out.disk
          /\ last' = MainRan("folder_mood_set", folder, FALSE, PyNone,
                             IF ~IsDir(DirPath(folder)) THEN "notfound" ELSE "summary",
                             "none", <<>>, out.loads, Files(stat, disk, json_file))
    /\ UNCHANGED <<fs, nops, nfaults, tagOnly, stat, json_file>>

\* elif args.mood_action == "get": folder_mood_get(args.folder,
\*     recursive=args.recursive, mood_filter_name=args.mood_name)
MainFolderMoodGet(folder, recursive, mood_name) ==
    /\ last.op = "init"
    /\ last' = MainRan("folder_mood_get", folder, recursive, mood_name,
                       FolderMoodGetResult(folder, recursive, mood_name, disk).status,
                       FolderMoodGetResult(folder, recursive, mood_name, disk).exc,
                       FolderMoodGetResult(folder, recursive, mood_name, disk).reported,
                       FolderMoodGetResult(folder, recursive, mood_name, disk).loads,
                       Files(stat, disk, json_file))
    /\ UNCHANGED <<fs, disk, nops, nfaults, tagOnly, stat, json_file>>

NextMain ==
    \/ \E path \in {FilePath(".", F_a), DirPath("./s"), DirPath("./x"),
                    FilePath("./x", F_a), FilePath(".", F_ghost)} :
          MainTag(path, A_a, A_none, FALSE)
    \/ \E folder \in MainFolders : MainSearchTag(folder, T_urgent)
    \/ \E folder \in MainFolders, q \in MainQueries : MainSearchMeta(folder, q)
    \/ \E folder \in MainFolders, dry_run \in BOOLEAN : MainDeduplicate(folder, dry_run)
    \/ \E folder \in MainFolders : MainExportMap(folder)
    \/ \E folder \in MainFolders, name \in {PyNone, PyStr(S_Trip)} :
          MainFolderMoodSet(folder, S_happy, name)
    \/ \E folder \in MainFolders, recursive \in BOOLEAN,
          mood_name \in {PyNone, PyStr(S_happy), PyStr(S_TRI), PyStr(S_a), PyStr(<<>>)} :
          MainFolderMoodGet(folder, recursive, mood_name)

SpecMain == InitMain /\ [][NextMain]_vars

\* C22: a command of tag, search-tag, search-meta, deduplicate, export-map,
\* folder-mood set or folder-mood get whose path does not exist ends the
\* process with a non-zero exit status and leaves every file as it was.
C22_NotFoundIsFatal ==
    (last.op # "init" /\ last.status = "notfound") =>
        /\ last.exit # 0
        /\ Files(stat, disk, json_file) = last.pre

\* The folders the last folder_mood_get loaded or reported.
MoodTouched ==
    {d \in Dirs : last.loads[d] > 0}
        \cup {last.reported[i].dir : i \in 1..Len(last.reported)}

\* C25: folder_mood_get with recursive False, with or without a filter,
\* loads and reports the given folder only.
C25_GivenFolderOnly ==
    (last.op = "folder_mood_get" /\ ~last.recursive /\ last.status # "notfound") =>
        MoodTouched \subseteq {last.folder}

\* ---------------------------------------------- after a corrupt sidecar file
\* A sidecar file _load_metadata answers with {} although it exists: it is
\* empty, blank, or not JSON.
Unreadable(file) ==
    /\ file.exists
    /\ \/ TextStrip(file.text) = <<>>
       \/ LoadTry(file, "ok").exc = "JSONDecodeError"

\* The sidecar files at the start: the one of "." is empty, holds a token
\* that is no JSON, or is a document cut short; the one of "./s" is absent
\* or holds tags.
RecoverStores ==
    {DirMap(FileOf(<<>>), Absent),
     DirMap(FileOf(<<L_bad>>), FileOf(Dump(TaggedSub))),
     DirMap(FileOf(SubSeq(Dump(TaggedRoot), 1, 7)), Absent)}

RecoverTagCalls ==
    {TagCall(FilePath(".", F_a), A_a, A_none, FALSE),
     TagCall(FilePath("", F_a), A_a, A_none, FALSE),
     TagCall(FilePath(".", F_a), A_none, A_a, FALSE),
     TagCall(DirPath("."), A_b, A_none, FALSE)}

InitRecover ==
    /\ stat = QueryTree
    /\ json_file = Absent
    /\ fs = DirMap(NamesOf(QueryTree["."]), NamesOf(QueryTree["./s"]))
    /\ disk \in RecoverStores
    /\ last = Done(NoCommand, disk, Account(disk))
    /\ nops = 0
    /\ nfaults = 0
    /\ tagOnly = FALSE

\* A command that only loads: its record, with the loads it made.
LoadOnly(op, folder, loads) ==
    /\ nops < MaxOps
    /\ nops' = nops + 1
    /\ last' = Done([NoCommand EXCEPT !.op = op, !.path = DirPath(folder)], disk,
                    [Account(disk) EXCEPT !.loads = loads])
    /\ UNCHANGED <<fs, disk, nfaults, tagOnly, stat>>

RecoverSearchTag(folder, tag) ==
    /\ LoadOnly("search_tag", folder, SearchTagResult(folder, tag, disk, fs).loads)
    /\ UNCHANGED json_file
RecoverSearchMeta(folder, q, now) ==
    /\ LoadOnly("search_meta", folder, SearchMetaResult(folder, q, now, stat, disk, fs).loads)
    /\ UNCHANGED json_file
\* json_file is a path other than a sidecar file's.
RecoverExportMap(folder, wr) ==
    /\ LoadOnly("export_map", folder, ExportWalk(Walked, WalkDirs(folder), disk, fs).loads)
    /\ json_file' = ExportMapRun(folder, wr, stat, disk, fs, json_file).file
RecoverFolderMoodGet(folder, recursive, mood_name) ==
    /\ LoadOnly("folder_mood_get", folder,
                FolderMoodGetResult(folder, recursive, mood_name, disk).loads)
    /\ UNCHANGED json_file

NextRecover ==
    \/ \E c \in RecoverTagCalls : TagFile(c.path, c.add, c.rem, c.recursive)
    \/ \E name \in {PyNone, PyStr(S_Trip)} : FolderMoodSet(".", S_happy, name)
    \/ RecoverSearchTag(".", T_urgent)
    \/ RecoverSearchMeta(".", [ok |-> TRUE, val |-> EmptyDict], FilesNow)
    \/ RecoverExportMap(".", WriteOk)
    \/ \E recursive \in BOOLEAN : RecoverFolderMoodGet(".", recursive, PyNone)

SpecRecover == InitRecover /\ [][NextRecover]_vars

\* The files of directory d whose tag set the last tag command changed.
ChangedKeys(d) ==
    {p.name : p \in {q \in ProcessedIn(d) :
                        UpdatedTags(q) # TagsOf(PreDoc(d), q.name)}}

\* C26: when the sidecar file of a directory is empty or corrupt, a
\* fault-free tag_file that changes a tag set there, and a fault-free
\* folder_mood_set there, overwrite it with a document holding only the
\* entries that call touched; search_tag, search_meta, export_map and
\* folder_mood_get leave every sidecar file as it was.
C26_RecoveryOverwrites ==
    /\ FaultFree("tag") =>
          \A d \in Dirs :
              (Unreadable(last.pre[d]) /\ ChangedKeys(d) # {}) =>
                  /\ disk[d] # last.pre[d]
                  /\ ~Unreadable(disk[d])
                  /\ DictKeys(Doc(d)) = ChangedKeys(d)
    /\ FaultFree("mood_set") =>
          (Unreadable(last.pre[last.cmd.path.dir]) =>
              /\ ~Unreadable(disk[last.cmd.path.dir])
              /\ DictKeys(Doc(last.cmd.path.dir)) = {FOLDER_KEY})
    /\ last.cmd.op \in {"search_tag", "search_meta", "export_map", "folder_mood_get"} =>
          disk = last.pre

====
